---- MODULE Spec2Model ----
(***************************************************************************)
(* Model of the access-control core of the file-serving gateway (webfs):   *)
(*   - the signed-URL subsystem (models/auth.rs: SigningKeys,               *)
(*     HmacSigningKey, SignUrlResponse),                                    *)
(*   - the token verifier and KeySet cache (auth/keycloak.rs: get_jwks,     *)
(*     verify_token),                                                       *)
(*   - the authorization resolver (auth/keycloak.rs: check_auth).           *)
(*                                                                          *)
(* Conventions.  A URL is held in parsed form [prefix, host, path, query]   *)
(* with query a sequence of DECODED <<name, value>> pairs; the url crate's  *)
(* percent-encoding and decoding are inverse to each other and are not      *)
(* modelled.  HMAC-SHA256 followed by base64 is an ideal keyed function:    *)
(* its output is a string that determines the secret and the message.      *)
(* nanoid key ids and OsRng secrets are fresh (never repeated).  Time is a *)
(* clock of seconds.                                                        *)
(***************************************************************************)
EXTENDS Integers, Sequences, FiniteSets, TLC

VARIABLES
    now,        \* wall clock, seconds since the epoch (SystemTime::now / Local::now)
    sk,         \* the SigningKeys object
    minted,     \* ghost: every HmacSigningKey that create_new_key has made
    issued,     \* the last SignUrlResponse kept by a client (None if none)
    res,        \* outcome of the last verification of a signed URL
    jwks_cache, \* JWKS_CACHE: None or Some([jwks, fetched_at])
    vt,         \* the last call of verify_token and what it did
    tokens,     \* the token cache (moka Cache<String, AuthResponse>)
    passwd,     \* the credential-pair cache (moka Cache<String, AuthResponse>)
    ares,       \* the last call of check_auth and what it did
    dir,        \* the names of the files in the watch directory
    filenames,  \* the committed table "filenames" of the Metadata Store
    filedesc,   \* the committed table "filedesc": descriptor id -> FileDesc
    scan,       \* the extraction loop: where it is in its tick, its locals
    mutex,      \* the mutex around Storage: "free", its holder, or "poisoned"
    chdir,      \* the media files in the directory of each channel
    channel_cache, \* the Channel Cache: cache id -> [channel, computed_at]
    rx1,        \* the queue from Stage A to Stage B
    rx2,        \* the queue from Stage B to Stage C
    sent,       \* ghost: the snapshot Stage B last forwarded, per cache id
    stage_b,    \* where Stage B is: waiting to receive, or about to send
    lres        \* the last call of channel_descriptions and what it did

signVars == <<sk, minted, issued, res>>

tokVars == <<jwks_cache, vt>>

authVars == <<tokens, passwd, ares>>

ingestVars == <<dir, filenames, filedesc, scan, mutex>>

listVars == <<chdir, channel_cache, rx1, rx2, sent, stage_b, lres>>

storeVars == <<ingestVars, listVars>>

vars == <<now, sk, minted, issued, res, jwks_cache, vt, tokens, passwd, ares,
          dir, filenames, filedesc, scan, mutex,
          chdir, channel_cache, rx1, rx2, sent, stage_b, lres>>

\* the Metadata Store, the extraction loop and the listing pipeline at rest
InitStoreIdle ==
    /\ dir = {} /\ filenames = {} /\ filedesc = <<>>
    /\ scan = [pc |-> "idle"] /\ mutex = "free"
    /\ chdir = <<>> /\ channel_cache = <<>>
    /\ rx1 = <<>> /\ rx2 = <<>> /\ sent = <<>> /\ stage_b = [pc |-> "recv"]
    /\ lres = [op |-> "none"]

\* Option<T>: None is the empty sequence, Some(x) the sequence of x alone
None == <<>>

Some(x) == <<x>>

Get(o) == o[1]

\* an absent string
NoStr == "None"

-----------------------------------------------------------------------------
(* Bounds of the model *)

MaxTime == 240          \* the clock stops here
TimeStep == 60          \* one tick of the clock
MaxKeys == 3            \* keys minted in one run

JwksStep == 7200        \* one tick of the clock in the token verifier's runs
JwksMaxTime == 21600    \* the clock stops here in the token verifier's runs
MaxAnswers == 3         \* KeySets the identity provider returns in one run
MaxTimers == 3          \* timers the browser client sets in one run

AuthMaxTime == 7200     \* the clock stops here in the resolver's runs

(* Program constants *)

GlobalKeyExpirySecs == 2592000  \* SIGNING_KEYS: keys live 30 days
GlobalSigExpirySecs == 3600     \* SIGNING_KEYS: signatures live 1 hour
JwksTtlSecs == 14400    \* get_jwks serves the cached KeySet for 4 hours

MinExpirySecs == 60     \* SigningKeys::new clamps both windows to >= 60

(* Configurations of SigningKeys::new the model starts from *)

ShortWindow == 30       \* a window below the clamp
LongWindow == 120       \* a window above the clamp

-----------------------------------------------------------------------------
(* Strings *)

StartsWith(s, p) == Len(s) >= Len(p) /\ SubSeq(s, 1, Len(p)) = p

EndsWithSlash(s) == Len(s) >= 1 /\ SubSeq(s, Len(s), Len(s)) = "/"

Pop(s) == SubSeq(s, 1, Len(s) - 1)

\* str::to_uppercase on the method names the model uses
to_uppercase(m) ==
    CASE m = "get" -> "GET"
      [] m = "post" -> "POST"
      [] OTHER -> m

\* str::parse::<u64>: Ok exactly on a non-empty string of decimal digits
Digits == <<"0", "1", "2", "3", "4", "5", "6", "7", "8", "9">>

IsDigit(c) == \E d \in 1..Len(Digits) : Digits[d] = c

DigitValue(c) == (CHOOSE d \in 1..Len(Digits) : Digits[d] = c) - 1

IsNumeric(s) == Len(s) >= 1 /\ \A i \in 1..Len(s) : IsDigit(SubSeq(s, i, i))

RECURSIVE ParseU64(_)
ParseU64(s) ==
    IF Len(s) = 0 THEN 0
    ELSE ParseU64(SubSeq(s, 1, Len(s) - 1)) * 10 + DigitValue(SubSeq(s, Len(s), Len(s)))

-----------------------------------------------------------------------------
(* URLs.  The text of a URL is prefix \o host \o path [\o "?" \o query].   *)

\* the last character of the text is '/'
TextEndsWithSlash(u) ==
    IF u.query # <<>>
    THEN EndsWithSlash(u.query[Len(u.query)][2])
    ELSE IF u.path # "" THEN EndsWithSlash(u.path) ELSE FALSE

\* String::pop on the text
TextPop(u) ==
    IF u.query # <<>>
    THEN [u EXCEPT !.query[Len(u.query)] = <<@[1], Pop(@[2])>>]
    ELSE [u EXCEPT !.path = Pop(@)]

\* HmacSigningKey::clean_url
clean_url(u) ==
    LET u1 == IF TextEndsWithSlash(u) THEN TextPop(u) ELSE u
        text == u1.prefix \o u1.host
    IN  IF ~StartsWith(text, "http")
        THEN LET schema == IF StartsWith(text, "localhost") THEN "http" ELSE "https"
             IN  IF StartsWith(text, "//")
                 THEN [u1 EXCEPT !.prefix = schema \o ":" \o @]
                 ELSE [u1 EXCEPT !.prefix = schema \o "://" \o @]
        ELSE u1

\* Url::parse: fails on a text with no scheme; an empty path becomes "/"
UrlParseOk(u) == u.prefix \in {"http://", "https://"}

UrlParse(u) == [u EXCEPT !.path = IF @ = "" THEN "/" ELSE @]

-----------------------------------------------------------------------------
(* HMAC and the canonical string *)

\* a MAC that does not depend on the secret
HmacSha256_NoSecret(secret, msg) == "mac(0," \o msg \o ")="

\* Hmac<Sha256> over msg with the key's secret, base64-encoded (STANDARD)
HmacSha256(secret, msg) == "mac(" \o ToString(secret) \o "," \o msg \o ")="

\* general_purpose::STANDARD.decode succeeds on the encoder's outputs and on
\* other well-formed base64; "AAAA" stands for the latter
IsBase64(s) == StartsWith(s, "mac(") \/ s \in {"", "AAAA"}

RECURSIVE JoinPairs(_)
\* .map(|(k, v)| format!("{}={}", k, v)).collect().join("&")
JoinPairs(q) ==
    IF q = <<>> THEN ""
    ELSE IF Len(q) = 1 THEN q[1][1] \o "=" \o q[1][2]
    ELSE q[1][1] \o "=" \o q[1][2] \o "&" \o JoinPairs(Tail(q))

NotSignature(p) == p[1] # "signature"

\* the query pairs except "signature", in the order of the URL
canonical_query(q) == JoinPairs(SelectSeq(q, NotSignature))

\* format!("{}{}{}", method, path, full_query)
string_to_sign(method, path, q) ==
    LET cq == canonical_query(q)
        full_query == IF cq # "" THEN "?" \o cq ELSE ""
    IN  to_uppercase(method) \o path \o full_query

-----------------------------------------------------------------------------
(* HmacSigningKey *)

\* HmacSigningKey::new followed by set_domain and set_expires_at
HmacSigningKeyNew(key_id, secret, expires_at, sig_exp_secs) ==
    [key_id |-> key_id, secret |-> secret, expires_at |-> expires_at,
     expires_in_secs |-> sig_exp_secs]

\* HmacSigningKey::is_expired
is_expired(key, t) == t > key.expires_at

\* HmacSigningKey::generate_signed_url; nano is the id nanoid!() would draw
generate_signed_url(key, request, t, nano) ==
    LET id == IF request.id = "" THEN nano ELSE request.id
        method == IF request.method = "" THEN "GET" ELSE request.method
        cleaned == clean_url(request.url)
    IN  IF ~UrlParseOk(cleaned) THEN [ok |-> FALSE, err |-> "UrlParseError"]
        ELSE
        LET url == UrlParse(cleaned)
            expires == t + key.expires_in_secs
            q1 == url.query \o << <<"expires", ToString(expires)>>,
                                  <<"id", id>>,
                                  <<"key_id", key.key_id>> >>
            signature_b64 == HmacSha256(key.secret,
                                        string_to_sign(method, url.path, q1))
        IN  [ok |-> TRUE,
             resp |-> [id |-> id,
                       url |-> [url EXCEPT !.query =
                                    q1 \o << <<"signature", signature_b64>> >>],
                       method |-> method,
                       key_id |-> key.key_id,
                       signature |-> signature_b64,
                       expires_at |-> expires]]

\* HmacSigningKey::verify_signed_url on a SignUrlResponse, at time t:
\* "Ok" or the error it returns
verify_signed_url(key, request, t) ==
    LET cleaned == clean_url(request.url)
    IN  IF ~UrlParseOk(cleaned) THEN "UrlParseError"
        ELSE
        LET url == UrlParse(cleaned)
            pairs == url.query
            sigIdx == {i \in 1..Len(pairs) : pairs[i][1] = "signature"}
            expIdx == {i \in 1..Len(pairs) : pairs[i][1] = "expires"}
            \* the loop keeps the last signature and the last expires of the URL
            signature_b64 ==
                IF sigIdx # {}
                THEN pairs[CHOOSE i \in sigIdx : \A j \in sigIdx : j <= i][2]
                ELSE IF request.signature # "" THEN request.signature ELSE NoStr
            expires ==
                IF expIdx # {}
                THEN ParseU64(pairs[CHOOSE i \in expIdx : \A j \in expIdx : j <= i][2])
                ELSE IF request.expires_at # 0 THEN request.expires_at ELSE -1
        IN  IF \E i \in expIdx : ~IsNumeric(pairs[i][2]) THEN "ParseIntError"
            ELSE IF signature_b64 = NoStr THEN "Missing signature"
            ELSE IF ~IsBase64(signature_b64) THEN "DecodeError"
            ELSE IF expires # -1 /\ t > expires THEN "URL expired"
            ELSE IF signature_b64 #
                      HmacSha256(key.secret,
                                 string_to_sign(request.method, url.path, pairs))
                 THEN "Invalid signature"
            ELSE "Ok"

-----------------------------------------------------------------------------
(* SignUrlResponse *)

\* the value of the last pair named k, or d when there is none
LastValue(q, k, d) ==
    LET idx == {i \in 1..Len(q) : q[i][1] = k}
    IN  IF idx = {} THEN d ELSE q[CHOOSE i \in idx : \A j \in idx : j <= i][2]

\* SignUrlResponse::from_url
from_url(method, u) ==
    LET cleaned == clean_url(u)
    IN  IF ~UrlParseOk(cleaned) THEN [ok |-> FALSE, err |-> "UrlParseError"]
        ELSE
        LET url == UrlParse(cleaned)
            q == url.query
        IN  IF \E i \in 1..Len(q) : q[i][1] = "expires" /\ ~IsNumeric(q[i][2])
            THEN [ok |-> FALSE, err |-> "ParseIntError"]
            ELSE [ok |-> TRUE,
                  resp |-> [id |-> LastValue(q, "id", ""),
                            url |-> url,
                            method |-> method,
                            key_id |-> LastValue(q, "key_id", ""),
                            signature |-> LastValue(q, "signature", ""),
                            expires_at |-> ParseU64(LastValue(q, "expires", "0"))]]

-----------------------------------------------------------------------------
(* SigningKeys *)

\* SigningKeys::new
SigningKeysNew(key_expires_in_secs, sig_expires_in_secs) ==
    [keys |-> <<>>,
     cur_key |-> None,
     key_expires_in_secs |-> IF key_expires_in_secs < MinExpirySecs
                             THEN MinExpirySecs ELSE key_expires_in_secs,
     sig_expires_in_secs |-> IF sig_expires_in_secs < MinExpirySecs
                             THEN MinExpirySecs ELSE sig_expires_in_secs]

\* a rotation that keeps only the new key in the table
create_new_key_Replacing(s, key_id, secret, t) ==
    LET key == [key_id |-> key_id, secret |-> secret,
                expires_at |-> t + s.key_expires_in_secs,
                expires_in_secs |-> s.sig_expires_in_secs]
    IN  [s EXCEPT !.keys = (key_id :> key), !.cur_key = Some(key)]

\* SigningKeys::create_new_key; key_id and secret are what nanoid!() and
\* OsRng yield
create_new_key(s, key_id, secret, t) ==
    LET key == HmacSigningKeyNew(key_id, secret, t + s.key_expires_in_secs,
                                 s.sig_expires_in_secs)
    IN  [s EXCEPT !.keys = (key_id :> key) @@ @, !.cur_key = Some(key)]

\* the condition under which SigningKeys::current rotates
NeedsNewKey(s, t) == s.cur_key = None \/ is_expired(Get(s.cur_key), t)

\* a current() that mints a key at every call
current_AlwaysNew(s, key_id, secret, t) == create_new_key(s, key_id, secret, t)

\* SigningKeys::current: the SigningKeys after the call
current(s, key_id, secret, t) ==
    IF NeedsNewKey(s, t) THEN create_new_key(s, key_id, secret, t) ELSE s

\* a lookup that does not ask whether the key is expired
keys_verify_signed_url_NoExpiry(s, request, t) ==
    IF request.key_id \in DOMAIN s.keys
    THEN verify_signed_url(s.keys[request.key_id], request, t)
    ELSE "Key not found"

\* SigningKeys::verify_signed_url
keys_verify_signed_url(s, request, t) ==
    IF request.key_id \in DOMAIN s.keys
    THEN LET key == s.keys[request.key_id]
         IN  IF is_expired(key, t) THEN "Key is expired"
             ELSE verify_signed_url(key, request, t)
    ELSE "Key not found"

-----------------------------------------------------------------------------
(* Inputs *)

Windows == {ShortWindow, LongWindow}

Url(prefix, host, path, query) ==
    [prefix |-> prefix, host |-> host, path |-> path, query |-> query]

\* requests a caller asks to have signed
SignUrlRequests ==
    { [id |-> "", url |-> Url("", "localhost", "/a/", <<>>), method |-> ""],
      [id |-> "r1", url |-> Url("https://", "h", "/a", << <<"x", "1">> >>),
       method |-> "get"],
      [id |-> "r1", url |-> Url("https://", "h", "/a", << <<"expires", "abc">> >>),
       method |-> "GET"],
      [id |-> "r1", url |-> Url("", "httpbin", "/a", <<>>), method |-> "GET"] }

\* what a client may do to the query of a URL before presenting it
TamperValues == {"0", "abc", "AAAA", "K2"}

TamperPairs == { <<"z", "0">>, <<"signature", "AAAA">> }

RemoveAt(q, i) == SubSeq(q, 1, i - 1) \o SubSeq(q, i + 1, Len(q))

InsertAt(q, i, p) == SubSeq(q, 1, i - 1) \o <<p>> \o SubSeq(q, i, Len(q))

\* pairs i and i+1 sent as one pair whose value holds "&" and "=" (as %26, %3D)
MergeAt(q, i) ==
    SubSeq(q, 1, i - 1)
      \o << <<q[i][1], q[i][2] \o "&" \o q[i + 1][1] \o "=" \o q[i + 1][2]>> >>
      \o SubSeq(q, i + 2, Len(q))

Tamperings(q) ==
    { [q EXCEPT ![i] = <<@[1], v>>] : i \in 1..Len(q), v \in TamperValues }
      \cup { [q EXCEPT ![i] = <<"z", @[2]>>] : i \in 1..Len(q) }
      \cup { RemoveAt(q, i) : i \in 1..Len(q) }
      \cup { InsertAt(q, i, p) : i \in 1..(Len(q) + 1), p \in TamperPairs }
      \cup { MergeAt(q, i) : i \in 1..(Len(q) - 1) }

\* the URLs a client may present for an issued response
Presentable(r) ==
    { [r.url EXCEPT !.query = q] : q \in {r.url.query} \cup Tamperings(r.url.query) }

-----------------------------------------------------------------------------
(* The signed-URL subsystem as a state machine *)

NoRes == [op |-> "none"]

NoCall == [op |-> "none"]

InitSign ==
    /\ now = 0
    /\ \E k \in Windows, s \in Windows : sk = SigningKeysNew(k, s)
    /\ minted = {}
    /\ issued = None
    /\ res = NoRes
    /\ jwks_cache = None /\ vt = NoCall
    /\ tokens = <<>> /\ passwd = <<>> /\ ares = NoCall
    /\ InitStoreIdle

\* time passes
Tick ==
    /\ res = NoRes
    /\ now + TimeStep <= MaxTime
    /\ now' = now + TimeStep
    /\ UNCHANGED <<signVars, tokVars, authVars, storeVars>>

\* SigningKeys::generate_signed_url(request); the caller keeps the response
\* or throws it away
GenerateSignedUrl ==
    /\ res = NoRes
    /\ \E request \in SignUrlRequests, keep \in BOOLEAN :
        LET n == Cardinality(DOMAIN sk.keys)
            s1 == current(sk, "K" \o ToString(n + 1), n + 1, now)
            key == Get(s1.cur_key)
            r == generate_signed_url(key, request, now, "n1")
        IN  /\ NeedsNewKey(sk, now) => n < MaxKeys
            /\ sk' = s1
            /\ minted' = minted \cup {key}
            /\ issued' = IF r.ok /\ keep THEN Some(r.resp) ELSE issued
            /\ UNCHANGED <<now, res, tokVars, authVars, storeVars>>

\* HmacSigningKey::verify_signed_url with a key of the table, on the response
\* object as issued
VerifyResponse ==
    /\ res = NoRes
    /\ issued # None
    /\ \E kid \in DOMAIN sk.keys :
         res' = [op |-> "hmac", via |-> "resp", key_id |-> kid, parsed |-> TRUE,
                 url |-> Get(issued).url,
                 result |-> verify_signed_url(sk.keys[kid], Get(issued), now)]
    /\ UNCHANGED <<now, sk, minted, issued, tokVars, authVars, storeVars>>

\* from_url on a presented URL, then HmacSigningKey::verify_signed_url
VerifyUrl ==
    /\ res = NoRes
    /\ issued # None
    /\ \E kid \in DOMAIN sk.keys, u \in Presentable(Get(issued)) :
         LET f == from_url(Get(issued).method, u)
         IN  res' = [op |-> "hmac", via |-> "url", key_id |-> kid, parsed |-> f.ok,
                     url |-> u,
                     result |-> IF f.ok
                                THEN verify_signed_url(sk.keys[kid], f.resp, now)
                                ELSE f.err]
    /\ UNCHANGED <<now, sk, minted, issued, tokVars, authVars, storeVars>>

\* from_url on a presented URL, then SigningKeys::verify_signed_url
KeysVerifyUrl ==
    /\ res = NoRes
    /\ issued # None
    /\ \E u \in Presentable(Get(issued)) :
         LET f == from_url(Get(issued).method, u)
         IN  res' = [op |-> "keys", via |-> "url", parsed |-> f.ok,
                     key_id |-> IF f.ok THEN f.resp.key_id ELSE NoStr, url |-> u,
                     result |-> IF f.ok
                                THEN keys_verify_signed_url(sk, f.resp, now)
                                ELSE f.err]
    /\ UNCHANGED <<now, sk, minted, issued, tokVars, authVars, storeVars>>

\* the verifier's caller has its answer
Return ==
    /\ res # NoRes
    /\ res' = NoRes
    /\ UNCHANGED <<now, sk, minted, issued, tokVars, authVars, storeVars>>

NextSign ==
    Tick \/ GenerateSignedUrl \/ VerifyResponse \/ VerifyUrl \/ KeysVerifyUrl \/ Return

SpecSign == InitSign /\ [][NextSign]_vars

-----------------------------------------------------------------------------
(* Properties of the signed-URL subsystem *)

TheIssued == Get(issued)

Verified == res # NoRes

NonSignature(q) == SelectSeq(q, NotSignature)

\* C1: round trip of HmacSigningKey: the URL produced by generate_signed_url,
\* verified unchanged with the key that signed it and the same method,
\* succeeds at every time up to its expires value and fails with
\* "URL expired" after it.
C1_RoundTrip ==
    (Verified /\ res.op = "hmac" /\ res.url = TheIssued.url
       /\ res.key_id = TheIssued.key_id)
    => res.result = IF now <= TheIssued.expires_at THEN "Ok" ELSE "URL expired"

\* C2: tamper detection: a URL whose query parameters (other than the
\* signature itself) were changed after signing is never accepted by
\* HmacSigningKey::verify_signed_url with the signing key.
C2_TamperRejected ==
    (Verified /\ res.op = "hmac" /\ res.via = "url"
       /\ res.key_id = TheIssued.key_id
       /\ NonSignature(res.url.query) # NonSignature(TheIssued.url.query))
    => res.result # "Ok"

\* C3: key isolation: a URL signed with key A is never accepted by a
\* verification against a key B with a different secret, whether B is used
\* directly or is the key SigningKeys::verify_signed_url looks up.
C3_KeyIsolation ==
    (Verified /\ res.key_id \in DOMAIN sk.keys
       /\ sk.keys[res.key_id].secret # sk.keys[TheIssued.key_id].secret)
    => res.result # "Ok"

\* a URL signed with K1 was presented to SigningKeys with key_id K2, K2 being
\* in the table and not expired, and was refused by the HMAC comparison
C3_Witness ==
    /\ Verified /\ res.op = "keys"
    /\ TheIssued.key_id = "K1" /\ res.key_id = "K2"
    /\ res.result = "Invalid signature"

\* SigningKeys accepts the response r at time t (from_url, then
\* SigningKeys::verify_signed_url)
Accepts(s, r, t) ==
    LET f == from_url(r.method, r.url)
    IN  f.ok /\ keys_verify_signed_url(s, f.resp, t) = "Ok"

\* C4: rotation keeps old signatures valid: every key ever minted stays in
\* the lookup table with its secret, id and expiry unchanged, and no step
\* (rotation included) turns an accepted URL into a rejected one while its
\* key and the URL itself are within their expiry.
C4_RotationKeepsValid ==
    /\ [](\A k \in minted : k.key_id \in DOMAIN sk.keys /\ sk.keys[k.key_id] = k)
    /\ [][(/\ issued # None /\ issued' = issued
           /\ Accepts(sk, TheIssued, now)
           /\ now' <= TheIssued.expires_at
           /\ ~is_expired(sk.keys[TheIssued.key_id], now'))
          => Accepts(sk', TheIssued, now')]_vars

\* after two rotations the first key is still in the table, and a URL signed
\* under the second one, later than it was issued, is accepted
C4_Witness ==
    /\ Cardinality(DOMAIN sk.keys) >= 2
    /\ \E k \in minted : k.key_id = "K1" /\ sk.keys["K1"] = k
    /\ Verified /\ res.op = "keys" /\ res.url = TheIssued.url
    /\ TheIssued.key_id = "K2"
    /\ now > TheIssued.expires_at - sk.keys["K2"].expires_in_secs
    /\ res.result = "Ok"

\* C5: signing-key gate: SigningKeys::verify_signed_url answers
\* "Key not found" when the key_id names no key of the table and
\* "Key is expired" when the named key is past its expiry, whatever the
\* URL's expires value and signature are.
C5_KeyGate ==
    (Verified /\ res.op = "keys" /\ res.parsed)
    => LET key_id == LastValue(clean_url(res.url).query, "key_id", "")
       IN  /\ key_id \notin DOMAIN sk.keys => res.result = "Key not found"
           /\ (key_id \in DOMAIN sk.keys /\ now > sk.keys[key_id].expires_at)
                => res.result = "Key is expired"

\* the untampered URL, not yet expired itself, is refused because its key is
\* past expiry
C5_Witness ==
    /\ Verified /\ res.op = "keys" /\ res.url = TheIssued.url
    /\ now <= TheIssued.expires_at
    /\ res.result = "Key is expired"

-----------------------------------------------------------------------------
(* Bearer tokens and the identity provider's KeySet *)

\* The JWTs of the model, by their text.  kid: the header's key id (NoStr
\* when the header has none); signer: the RSA key that signed the token;
\* iss_ok, aud_ok: the issuer is this realm, the audience is "account";
\* exp: the exp claim; fs: the default_webdavfs claim (None when absent);
\* malformed: the text is no JWT at all.
Jwt(malformed, kid, signer, iss_ok, aud_ok, exp, fs) ==
    [malformed |-> malformed, kid |-> kid, signer |-> signer, iss_ok |-> iss_ok,
     aud_ok |-> aud_ok, exp |-> exp, fs |-> fs]

JwtTexts == {"t_good", "t_rot", "t_iss", "t_aud", "t_k2", "t_nokid", "t_bad"}

JwtOf(text) ==
    CASE text = "t_good"  -> Jwt(FALSE, "k1", 1, TRUE, TRUE, JwksStep, None)
      [] text = "t_rot"   -> Jwt(FALSE, "k1", 2, TRUE, TRUE, JwksStep, Some("f1"))
      [] text = "t_iss"   -> Jwt(FALSE, "k1", 1, FALSE, TRUE, JwksStep, None)
      [] text = "t_aud"   -> Jwt(FALSE, "k1", 1, TRUE, FALSE, JwksStep, None)
      [] text = "t_k2"    -> Jwt(FALSE, "k2", 2, TRUE, TRUE, JwksStep, Some("zz"))
      [] text = "t_nokid" -> Jwt(FALSE, NoStr, 1, TRUE, TRUE, JwksStep, None)
      [] text = "t_bad"   -> Jwt(TRUE, NoStr, 0, FALSE, FALSE, 0, None)

\* A JWK is [kid, n]: n names the RSA key; n = 0 is a modulus that
\* DecodingKey::from_rsa_components rejects
Jwk(kid, n) == [kid |-> kid, n |-> n]

\* the KeySets the identity provider may publish
KeySets ==
    { << Jwk("k1", 1) >>,
      << Jwk("k1", 2) >>,
      << Jwk("k1", 0) >>,
      << Jwk("k2", 2) >> }

\* what a GET of the certs endpoint yields: None when the request or the
\* parse of its body fails
JwksResponses == {None} \cup { Some(ks) : ks \in KeySets }

\* jwks.keys.into_iter().find(|k| k.kid == kid)
find_key(jwks, kid) ==
    LET idx == {i \in 1..Len(jwks) : jwks[i].kid = kid}
    IN  IF idx = {} THEN None
        ELSE Some(jwks[CHOOSE i \in idx : \A j \in idx : i <= j])

\* jsonwebtoken::decode::<Claims> with validate_exp = false: the signature
\* first, then issuer and audience; "Ok" or the error kind
decode(text, n) ==
    LET t == JwtOf(text)
    IN  IF t.signer # n THEN "InvalidSignature"
        ELSE IF ~t.iss_ok THEN "InvalidIssuer"
        ELSE IF ~t.aud_ok THEN "InvalidAudience"
        ELSE "Ok"

\* a cache check that never lets the KeySet age out
jwks_fresh_NoTtl(c, t) == c # None

\* the cache check of get_jwks: a KeySet is cached and
\* cached.fetched_at.elapsed() < Duration::from_secs(14400)
jwks_fresh(c, t) == c # None /\ t - Get(c).fetched_at < JwksTtlSecs

\* get_jwks with the cache c at time t; response is what the certs endpoint
\* answers if it is asked.  fetched: a request was sent
get_jwks(c, t, response) ==
    IF jwks_fresh(c, t)
    THEN [ok |-> TRUE, jwks |-> Get(c).jwks, cache |-> c, fetched |-> FALSE]
    ELSE IF response = None
    THEN [ok |-> FALSE, jwks |-> <<>>, cache |-> c, fetched |-> TRUE]
    ELSE [ok |-> TRUE, jwks |-> Get(response),
          cache |-> Some([jwks |-> Get(response), fetched_at |-> t]),
          fetched |-> TRUE]

\* a retry on every validation error
is_any_error(e) == TRUE

\* matches!(e.kind(), ErrorKind::InvalidSignature)
is_signature_error(e) == e = "InvalidSignature"

\* the Err arm of verify_token's first decode, entered with the cache c1
verify_token_retry(c1, text, kid, e, t, response2) ==
    IF is_signature_error(e)
    THEN LET g == get_jwks(None, t, response2)
             ev == <<"clear", "get_jwks">> \o (IF g.fetched THEN <<"fetch">> ELSE <<>>)
         IN  IF ~g.ok THEN [result |-> "Err500", cache |-> g.cache, events |-> ev]
             ELSE
             LET fresh_key == find_key(g.jwks, kid)
             IN  IF fresh_key = None
                 THEN [result |-> "Err401", cache |-> g.cache, events |-> ev]
                 ELSE IF Get(fresh_key).n = 0
                 THEN [result |-> "Err500", cache |-> g.cache, events |-> ev]
                 ELSE [result |-> IF decode(text, Get(fresh_key).n) = "Ok"
                                  THEN "true" ELSE "false",
                       cache |-> g.cache, events |-> ev \o <<"decode">>]
    ELSE [result |-> "false", cache |-> c1, events |-> <<>>]

\* verify_token(token) at time t with the cache c; response1 and response2
\* are the answers of the certs endpoint to the first and the second
\* request, if they are sent.  result: "true", "false" (Ok(true), Ok(false))
\* or "Err401", "Err500"; events: what the call did, in order
verify_token(c, text, t, response1, response2) ==
    LET g == get_jwks(c, t, response1)
        ev1 == <<"get_jwks">> \o (IF g.fetched THEN <<"fetch">> ELSE <<>>)
        tok == JwtOf(text)
    IN  IF ~g.ok THEN [result |-> "Err500", cache |-> g.cache, events |-> ev1]
        ELSE IF tok.malformed \/ tok.kid = NoStr
        THEN [result |-> "Err401", cache |-> g.cache, events |-> ev1]
        ELSE
        LET key == find_key(g.jwks, tok.kid)
        IN  IF key = None
            THEN [result |-> "Err401", cache |-> g.cache, events |-> ev1]
            ELSE IF Get(key).n = 0
            THEN [result |-> "Err500", cache |-> g.cache, events |-> ev1]
            ELSE
            LET e == decode(text, Get(key).n)
                ev2 == ev1 \o <<"decode">>
            IN  IF e = "Ok"
                THEN [result |-> IF tok.exp > t THEN "true" ELSE "false",
                      cache |-> g.cache, events |-> ev2]
                ELSE LET r == verify_token_retry(g.cache, text, tok.kid, e, t, response2)
                     IN  [result |-> r.result, cache |-> r.cache,
                          first_error |-> e, events |-> ev2 \o r.events]

-----------------------------------------------------------------------------
(* The token verifier as a state machine *)

InitToken ==
    /\ now = 0
    /\ sk = SigningKeysNew(LongWindow, LongWindow)
    /\ minted = {}
    /\ issued = None
    /\ res = NoRes
    /\ jwks_cache = None /\ vt = NoCall
    /\ tokens = <<>> /\ passwd = <<>> /\ ares = NoCall
    /\ InitStoreIdle

\* time passes
TickJwks ==
    /\ now + JwksStep <= JwksMaxTime
    /\ now' = now + JwksStep
    /\ UNCHANGED <<signVars, tokVars, authVars, storeVars>>

\* one call of verify_token
VerifyToken ==
    \E text \in JwtTexts, response1 \in JwksResponses, response2 \in JwksResponses :
        LET r == verify_token(jwks_cache, text, now, response1, response2)
        IN  /\ jwks_cache' = r.cache
            /\ vt' = [op |-> "verify_token", token |-> text, at |-> now] @@ r
            /\ UNCHANGED <<now, signVars, authVars, storeVars>>

NextToken == TickJwks \/ VerifyToken

SpecToken == InitToken /\ [][NextToken]_vars

-----------------------------------------------------------------------------
(* Properties of the token verifier *)

Called == vt.op = "verify_token"

Count(ev, x) == Cardinality({i \in 1..Len(ev) : ev[i] = x})

\* the first validation of the call failed with a signature mismatch
SigFail == "first_error" \in DOMAIN vt /\ vt.first_error = "InvalidSignature"

\* C6: token expiry is always enforced: whenever verify_token returns
\* Ok(true), the token's exp claim is strictly greater than the wall clock
\* at the time of the call.
C6_ExpiryEnforced ==
    (Called /\ vt.result = "true") => JwtOf(vt.token).exp > vt.at

\* C7 as stated: verify_token clears the cache, refetches and retries
\* validation if and only if the first validation failed with a signature
\* mismatch, and then exactly once; after any other failure it does none of
\* the three.
C7_RetryIffSignatureFailure ==
    Called =>
      /\ SigFail <=> (/\ Count(vt.events, "clear") = 1
                      /\ Count(vt.events, "get_jwks") = 2
                      /\ Count(vt.events, "decode") = 2)
      /\ ~SigFail => (/\ Count(vt.events, "clear") = 0
                      /\ Count(vt.events, "get_jwks") = 1
                      /\ Count(vt.events, "decode") <= 1)

\* the KeySet left in the cache by the call holds a usable key for the
\* token's kid
FreshKeyUsable ==
    /\ vt.cache # None
    /\ LET k == find_key(Get(vt.cache).jwks, JwtOf(vt.token).kid)
       IN  k # None /\ Get(k).n # 0

\* C7, amended: verify_token clears the cache and sends one refetch if and
\* only if the first validation failed with a signature mismatch; it retries
\* validation at most once, exactly when that refetch succeeded and the fresh
\* KeySet holds a usable key for the token's kid; after any other failure it
\* neither clears, refetches nor retries, and does not return Ok(true).
C7_RetryOnceOnSignatureFailure ==
    Called =>
      /\ SigFail <=> Count(vt.events, "clear") = 1
      /\ SigFail =>
           /\ Count(vt.events, "get_jwks") = 2
           /\ \E i \in 1..Len(vt.events) :
                /\ vt.events[i] = "clear"
                /\ Count(SubSeq(vt.events, i + 1, Len(vt.events)), "fetch") = 1
           /\ Count(vt.events, "decode") = IF FreshKeyUsable THEN 2 ELSE 1
      /\ ~SigFail =>
           /\ Count(vt.events, "clear") = 0
           /\ Count(vt.events, "get_jwks") = 1
           /\ Count(vt.events, "decode") <= 1
           /\ "first_error" \in DOMAIN vt => vt.result = "false"

\* a call whose first validation failed on the signature cleared the
\* cache, fetched once more, validated a second time and returned Ok(true)
C7_Witness ==
    /\ Called /\ SigFail
    /\ vt.events = <<"get_jwks", "decode", "clear", "get_jwks", "fetch", "decode">>
    /\ vt.result = "true"

-----------------------------------------------------------------------------
(* The Credential Exchanger *)

\* hash_token: SHA-256 of the token text, in hex
hash_token(text) == "sha256(" \o text \o ")"

\* the keys of state.config.folders
Folders == {"f1", "default"}

\* decode_jwt_payload_struct: fails on a text that is no JWT
decode_jwt_payload_ok(text) == ~JwtOf(text).malformed

\* what the token endpoint answers to a password or refresh grant
TokenResponses ==
    { [kind |-> "unreachable"], [kind |-> "rejected"], [kind |-> "badjson"],
      [kind |-> "ok", access_token |-> "t_good"],
      [kind |-> "ok", access_token |-> "t_rot"],
      [kind |-> "ok", access_token |-> "t_k2"],
      [kind |-> "ok", access_token |-> "t_bad"] }

\* the AuthResponse built from an access token (keycloak.rs:134-142)
AuthResponse(text, folder) ==
    [jwt_token |-> text, token_hash |-> hash_token(text), claims |-> text,
     folder |-> folder]

\* a Credential Exchanger that never consults the credential-pair cache
authenticate_NoCache(auth_req, pw, tk, response) ==
    LET key == auth_req.username \o ":" \o auth_req.password
        ev == <<"token_request">>
    IN  IF response.kind # "ok" \/ ~decode_jwt_payload_ok(response.access_token)
        THEN [ok |-> FALSE, status |-> 500, passwd |-> pw, tokens |-> tk, events |-> ev]
        ELSE LET resp == AuthResponse(response.access_token, None)
             IN  [ok |-> TRUE, auth |-> resp, passwd |-> (key :> resp) @@ pw,
                  tokens |-> (resp.jwt_token :> resp)
                               @@ ((resp.token_hash :> resp) @@ tk),
                  events |-> ev]

\* a Credential Exchanger that stores the session under the token hash only
authenticate_HashOnly(auth_req, pw, tk, response) ==
    LET key == auth_req.username \o ":" \o auth_req.password
    IN  IF auth_req.use_cache /\ key \in DOMAIN pw
        THEN [ok |-> TRUE, auth |-> pw[key], passwd |-> pw, tokens |-> tk,
              events |-> <<"passwd.get">>]
        ELSE
        LET ev == (IF auth_req.use_cache THEN <<"passwd.get">> ELSE <<>>)
                    \o <<"token_request">>
        IN  IF response.kind # "ok" \/ ~decode_jwt_payload_ok(response.access_token)
            THEN [ok |-> FALSE, status |-> 500, passwd |-> pw, tokens |-> tk,
                  events |-> ev]
            ELSE LET resp == AuthResponse(response.access_token, None)
                 IN  [ok |-> TRUE, auth |-> resp, passwd |-> pw,
                      tokens |-> (resp.token_hash :> resp) @@ tk, events |-> ev]

\* authenticate(auth_req) with the caches pw and tk; response is the token
\* endpoint's answer if it is asked
authenticate(auth_req, pw, tk, response) ==
    LET key == auth_req.username \o ":" \o auth_req.password
    IN  IF auth_req.use_cache /\ key \in DOMAIN pw
        THEN [ok |-> TRUE, auth |-> pw[key], passwd |-> pw, tokens |-> tk,
              events |-> <<"passwd.get">>]
        ELSE
        LET ev == (IF auth_req.use_cache THEN <<"passwd.get">> ELSE <<>>)
                    \o <<"token_request">>
            fail(status) == [ok |-> FALSE, status |-> status, passwd |-> pw,
                             tokens |-> tk, events |-> ev]
        IN  IF response.kind = "unreachable" THEN fail(500)
            ELSE IF response.kind = "rejected" THEN fail(401)
            ELSE IF response.kind = "badjson" THEN fail(500)
            ELSE IF ~decode_jwt_payload_ok(response.access_token) THEN fail(500)
            ELSE
            LET fs == JwtOf(response.access_token).fs
            IN  IF fs # None /\ Get(fs) # "" /\ Get(fs) \notin Folders THEN fail(500)
                ELSE
                LET folder == IF fs # None /\ Get(fs) # "" THEN fs ELSE None
                    resp == AuthResponse(response.access_token, folder)
                IN  [ok |-> TRUE, auth |-> resp,
                     passwd |-> (key :> resp) @@ pw,
                     tokens |-> (resp.jwt_token :> resp)
                                  @@ ((resp.token_hash :> resp) @@ tk),
                     events |-> ev]

\* refresh_token(refresh_req) with the caches pw and tk; response is the
\* token endpoint's answer to the refresh grant
refresh_token(refresh_req, pw, tk, response) ==
    LET ev == <<"token_request">>
        fail(status) == [ok |-> FALSE, status |-> status, passwd |-> pw,
                         tokens |-> tk, events |-> ev]
    IN  IF response.kind = "unreachable" THEN fail(500)
        ELSE IF response.kind = "rejected" THEN fail(401)
        ELSE IF response.kind = "badjson" THEN fail(500)
        ELSE IF ~decode_jwt_payload_ok(response.access_token) THEN fail(500)
        ELSE
        LET fs == JwtOf(response.access_token).fs
        IN  IF fs # None /\ Get(fs) # "" /\ Get(fs) \notin Folders THEN fail(500)
            ELSE
            LET folder == IF fs # None /\ Get(fs) # "" THEN fs ELSE None
                resp == AuthResponse(response.access_token, folder)
            IN  [ok |-> TRUE, auth |-> resp, passwd |-> pw,
                 tokens |-> (resp.jwt_token :> resp)
                              @@ ((resp.token_hash :> resp) @@ tk),
                 events |-> ev]

-----------------------------------------------------------------------------
(* The Authorization Resolver: check_auth *)

\* the result of check_auth: Ok(AuthInfo) or Err((status, message))
AuthOk(info, events, c, pw, tk) ==
    [ok |-> TRUE, status |-> 200, info |-> info, msg |-> NoStr, events |-> events,
     cache |-> c, passwd |-> pw, tokens |-> tk]

AuthErr(status, msg, events, c, pw, tk) ==
    [ok |-> FALSE, status |-> status, info |-> [kind |-> "None"], msg |-> msg,
     events |-> events,
     cache |-> c, passwd |-> pw, tokens |-> tk]

FromAuth(auth) == [kind |-> "FromAuth", auth |-> auth]

\* AuthInfo::new(claims, folder)
AuthInfoNew(claims, folder) == [kind |-> "Claims", claims |-> claims, folder |-> folder]

\* state.config.folders.get(id).cloned()
folders_get(id) == IF id \in Folders THEN Some(id) ELSE None

\* a bearer branch that verifies the token before it consults the cache
bearer_branch_VerifyFirst(jwt_token, c, pw, tk, t, response1, response2) ==
    LET v == verify_token(c, jwt_token, t, response1, response2)
        ev == <<"verify_token">> \o v.events \o <<"tokens.get">>
    IN  IF v.result \in {"Err401", "Err500"}
        THEN AuthErr(500, "token verification failed", ev, v.cache, pw, tk)
        ELSE IF v.result = "false"
        THEN AuthErr(401, "token inactive", ev, v.cache, pw, tk)
        ELSE IF jwt_token \in DOMAIN tk
        THEN AuthOk(FromAuth(tk[jwt_token]), ev, v.cache, pw, tk)
        ELSE AuthOk(AuthInfoNew(jwt_token, None), ev, v.cache, pw, tk)

\* the bearer branch (keycloak.rs:303-330)
bearer_branch(jwt_token, c, pw, tk, t, response1, response2) ==
    IF jwt_token \in DOMAIN tk
    THEN AuthOk(FromAuth(tk[jwt_token]), <<"tokens.get">>, c, pw, tk)
    ELSE
    LET v == verify_token(c, jwt_token, t, response1, response2)
        ev == <<"tokens.get", "verify_token">> \o v.events
    IN  IF v.result \in {"Err401", "Err500"}
        THEN AuthErr(500, "token verification failed", ev, v.cache, pw, tk)
        ELSE IF v.result = "false"
        THEN AuthErr(401, "token inactive", ev, v.cache, pw, tk)
        ELSE IF ~decode_jwt_payload_ok(jwt_token)
        THEN AuthErr(500, "failed to decode claims", ev, v.cache, pw, tk)
        ELSE
        LET fs == JwtOf(jwt_token).fs
            folder == IF fs # None THEN folders_get(Get(fs)) ELSE folders_get("default")
        IN  AuthOk(AuthInfoNew(jwt_token, folder), ev, v.cache, pw, tk)

\* the basic-credentials branch (keycloak.rs:331-349)
basic_branch(basic_auth, c, pw, tk, response) ==
    LET a == authenticate(basic_auth, pw, tk, response)
        ev == <<"authenticate">> \o a.events
    IN  IF a.ok THEN AuthOk(FromAuth(a.auth), ev, c, a.passwd, a.tokens)
        ELSE AuthErr(401, "Keycloak authentication failed", ev, c, a.passwd, a.tokens)

\* uri.contains("key_id="): some name of the query ends with key_id
contains_key_id(u) ==
    \E i \in 1..Len(u.query) :
        LET name == u.query[i][1]
        IN  Len(name) >= 6 /\ SubSeq(name, Len(name) - 5, Len(name)) = "key_id"

\* resp.tid: the session-token id the signed URL embeds
from_url_tid(u) == LastValue(clean_url(u).query, "tid", "")

\* a signed-URL branch that takes a valid signature for an identity
signed_url_branch_SignatureOnly(u, method, s, c, pw, tk, t) ==
    LET f == from_url(method, u)
    IN  IF ~f.ok THEN AuthErr(401, f.err, <<"from_url">>, c, pw, tk)
        ELSE
        LET v == keys_verify_signed_url(s, f.resp, t)
            ev == <<"from_url", "verify_signed_url">>
        IN  IF v # "Ok" THEN AuthErr(401, v, ev, c, pw, tk)
            ELSE AuthOk([kind |-> "FileSysID", fs_id |-> f.resp.id], ev, c, pw, tk)

\* the signed-URL branch (keycloak.rs:350-379), s being SIGNING_KEYS
signed_url_branch(u, method, s, c, pw, tk, t) ==
    LET f == from_url(method, u)
    IN  IF ~f.ok THEN AuthErr(401, f.err, <<"from_url">>, c, pw, tk)
        ELSE
        LET v == keys_verify_signed_url(s, f.resp, t)
            ev == <<"from_url", "verify_signed_url">>
            tid == from_url_tid(u)
        IN  IF v # "Ok" THEN AuthErr(401, v, ev, c, pw, tk)
            ELSE IF tid \in DOMAIN tk
            THEN AuthOk(FromAuth(tk[tid]), ev \o <<"tokens.get">>, c, pw, tk)
            ELSE AuthErr(500, "token verification failed", ev \o <<"tokens.get">>,
                         c, pw, tk)

\* a resolver that tries the basic credentials before the bearer token and
\* falls through when the bearer branch fails
check_auth_BasicFirst(request, s, c, pw, tk, t, idp) ==
    LET b == IF request.jwt_token # None
             THEN bearer_branch(Get(request.jwt_token), c, pw, tk, t,
                                idp.jwks1, idp.jwks2)
             ELSE AuthErr(401, "no token", <<>>, c, pw, tk)
    IN  IF request.basic_auth # None
        THEN basic_branch(Get(request.basic_auth), c, pw, tk, idp.token)
        ELSE IF b.ok THEN b
        ELSE IF contains_key_id(request.url)
        THEN signed_url_branch(request.url, request.method, s, b.cache, pw, tk, t)
        ELSE b

\* check_auth(request) at time t; idp holds the identity provider's answers
\* to the requests the call may send
check_auth(request, s, c, pw, tk, t, idp) ==
    IF request.jwt_token # None
    THEN bearer_branch(Get(request.jwt_token), c, pw, tk, t, idp.jwks1, idp.jwks2)
    ELSE IF request.basic_auth # None
    THEN basic_branch(Get(request.basic_auth), c, pw, tk, idp.token)
    ELSE IF contains_key_id(request.url)
    THEN signed_url_branch(request.url, request.method, s, c, pw, tk, t)
    ELSE AuthErr(401, "no token", <<>>, c, pw, tk)

-----------------------------------------------------------------------------
(* The resolver as a state machine *)

\* bearer tokens a client may send
AuthJwtTexts == {"t_good", "t_rot", "t_k2", "t_bad"}

\* basic credentials a client may send
BasicAuthRequests ==
    { [username |-> "u", password |-> "p", use_cache |-> b] : b \in BOOLEAN }

\* requests the signer is asked to sign: one bound to the session of t_good,
\* one bound to no session
AuthSignRequests ==
    { [id |-> "r1", method |-> "GET",
       url |-> Url("https://", "h", "/a", << <<"tid", hash_token("t_good")>> >>)],
      [id |-> "r1", method |-> "GET",
       url |-> Url("https://", "h", "/a", <<>>)] }

\* URLs a request may arrive on: without a key_id, with a name that merely
\* ends in key_id, an issued URL, and an issued URL with a changed parameter
AuthUrls ==
    { Url("https://", "h", "/a", <<>>),
      Url("https://", "h", "/a", << <<"xkey_id", "K1">> >>) }
      \cup (IF issued = None THEN {}
            ELSE LET u == Get(issued).url
                 IN  {u, [u EXCEPT !.query[1] = <<"tid", hash_token("t_rot")>>]})

\* AuthRequest::new(uri, method, headers)
AuthRequests ==
    [jwt_token : {None} \cup { Some(t) : t \in AuthJwtTexts },
     basic_auth : {None} \cup { Some(b) : b \in BasicAuthRequests },
     url : AuthUrls, method : {"GET"}]

NoJwks == [jwks1 |-> None, jwks2 |-> None]

NoToken == [token |-> [kind |-> "unreachable"]]

\* what the certs endpoint may answer while the resolver runs
AuthJwksResponses ==
    {None, Some(<< Jwk("k1", 1) >>), Some(<< Jwk("k1", 2) >>), Some(<< Jwk("k2", 2) >>)}

\* the answers of the identity provider a call of check_auth can consume
IdpAnswers(request) ==
    IF request.jwt_token # None
    THEN { [jwks1 |-> r1, jwks2 |-> r2] @@ NoToken : r1, r2 \in AuthJwksResponses }
    ELSE IF request.basic_auth # None
    THEN { [token |-> r] @@ NoJwks : r \in TokenResponses }
    ELSE { NoJwks @@ NoToken }

InitAuth ==
    /\ now = 0
    /\ sk = SigningKeysNew(GlobalKeyExpirySecs, GlobalSigExpirySecs)
    /\ minted = {}
    /\ issued = None
    /\ res = NoRes
    /\ jwks_cache = None /\ vt = NoCall
    /\ tokens = <<>> /\ passwd = <<>> /\ ares = NoCall
    /\ InitStoreIdle

\* time passes
TickAuth ==
    /\ ares = NoCall
    /\ now + JwksStep <= AuthMaxTime
    /\ now' = now + JwksStep
    /\ UNCHANGED <<signVars, tokVars, authVars, storeVars>>

\* a URL is signed with the current key of SIGNING_KEYS
SignUrlGlobal ==
    /\ ares = NoCall
    /\ \E request \in AuthSignRequests :
        LET n == Cardinality(DOMAIN sk.keys)
            s1 == current(sk, "K" \o ToString(n + 1), n + 1, now)
            r == generate_signed_url(Get(s1.cur_key), request, now, "n1")
        IN  /\ NeedsNewKey(sk, now) => n < MaxKeys
            /\ r.ok
            /\ sk' = s1
            /\ issued' = Some(r.resp)
    /\ UNCHANGED <<now, minted, res, tokVars, authVars, storeVars>>

\* one call of check_auth; grant records what the token endpoint answered,
\* if it was asked
CheckAuth ==
    /\ ares = NoCall
    /\ \E request \in AuthRequests :
         \E idp \in IdpAnswers(request) :
            \E r \in {check_auth(request, sk, jwks_cache, passwd, tokens, now, idp)} :
                /\ ares' = [op |-> "check_auth", request |-> request, ok |-> r.ok,
                            status |-> r.status, info |-> r.info, msg |-> r.msg,
                            events |-> r.events,
                            grant |-> IF Count(r.events, "token_request") > 0
                                      THEN idp.token.kind ELSE NoStr]
                /\ jwks_cache' = r.cache
                /\ passwd' = r.passwd
                /\ tokens' = r.tokens
    /\ UNCHANGED <<now, signVars, vt, storeVars>>

\* the record a call of the Credential Exchanger leaves
ExchangeResult(op, request, r) ==
    [op |-> op, request |-> request, ok |-> r.ok,
     status |-> IF r.ok THEN 200 ELSE r.status,
     info |-> IF r.ok THEN FromAuth(r.auth) ELSE [kind |-> "None"],
     msg |-> NoStr, events |-> r.events]

\* authenticate_handler: one call of authenticate
Authenticate ==
    /\ ares = NoCall
    /\ \E auth_req \in BasicAuthRequests, response \in TokenResponses :
         \E r \in {authenticate(auth_req, passwd, tokens, response)} :
            /\ ares' = ExchangeResult("authenticate", auth_req, r)
            /\ passwd' = r.passwd
            /\ tokens' = r.tokens
    /\ UNCHANGED <<now, signVars, tokVars, storeVars>>

\* refresh_handler: one call of refresh_token
RefreshToken ==
    /\ ares = NoCall
    /\ \E response \in TokenResponses :
         \E r \in {refresh_token([refresh_token |-> "rt"], passwd, tokens, response)} :
            /\ ares' = ExchangeResult("refresh_token", [refresh_token |-> "rt"], r)
            /\ passwd' = r.passwd
            /\ tokens' = r.tokens
    /\ UNCHANGED <<now, signVars, tokVars, storeVars>>

\* the caches drop an entry (time to live, capacity)
Evict ==
    /\ ares = NoCall
    /\ \/ \E k \in DOMAIN tokens :
            /\ tokens' = [x \in DOMAIN tokens \ {k} |-> tokens[x]]
            /\ UNCHANGED passwd
       \/ \E k \in DOMAIN passwd :
            /\ passwd' = [x \in DOMAIN passwd \ {k} |-> passwd[x]]
            /\ UNCHANGED tokens
    /\ UNCHANGED <<now, signVars, tokVars, ares, storeVars>>

\* the caller of check_auth has its answer
ReturnAuth ==
    /\ ares # NoCall
    /\ ares' = NoCall
    /\ UNCHANGED <<now, signVars, tokVars, tokens, passwd, storeVars>>

NextAuth ==
    \/ TickAuth \/ SignUrlGlobal \/ CheckAuth \/ Authenticate \/ RefreshToken
    \/ Evict \/ ReturnAuth

SpecAuth == InitAuth /\ [][NextAuth]_vars

-----------------------------------------------------------------------------
(* Properties of the resolver *)

AuthCalled == ares.op = "check_auth"

Did(e) == Count(ares.events, e) > 0

\* the call sent a request to the identity provider
ContactedIdp == Did("fetch") \/ Did("token_request")

\* the URL has a query parameter named key_id
CarriesKeyId(u) == \E i \in 1..Len(u.query) : u.query[i][1] = "key_id"

\* C8: check_auth is decided by the first branch that applies and by that
\* branch alone: with a bearer token only the bearer branch runs, whatever it
\* answers; without one and with basic credentials only the Credential
\* Exchanger runs; with neither and a key_id parameter in the URL only the
\* signed-URL verification runs; with none of the three the call fails with
\* status 401 and has contacted nobody.
C8_ResolutionOrder ==
    AuthCalled =>
      LET rq == ares.request
      IN  /\ rq.jwt_token # None =>
               /\ ares.events[1] = "tokens.get"
               /\ ~Did("authenticate") /\ ~Did("token_request")
               /\ ~Did("from_url") /\ ~Did("verify_signed_url")
               /\ ares.ok => ares.info.kind \in {"FromAuth", "Claims"}
               /\ ~ares.ok => ares.msg \in {"token verification failed",
                                            "token inactive",
                                            "failed to decode claims"}
          /\ rq.jwt_token = None /\ rq.basic_auth # None =>
               /\ ares.events[1] = "authenticate"
               /\ ~Did("tokens.get") /\ ~Did("verify_token") /\ ~Did("fetch")
               /\ ~Did("from_url") /\ ~Did("verify_signed_url")
               /\ ares.ok => ares.info.kind = "FromAuth"
               /\ ~ares.ok => /\ ares.status = 401
                              /\ ares.msg = "Keycloak authentication failed"
          /\ rq.jwt_token = None /\ rq.basic_auth = None /\ CarriesKeyId(rq.url) =>
               /\ ares.events[1] = "from_url"
               /\ ~Did("authenticate") /\ ~Did("verify_token") /\ ~ContactedIdp
               /\ ares.ok => Did("verify_signed_url")
          /\ rq.jwt_token = None /\ rq.basic_auth = None /\ ~CarriesKeyId(rq.url) =>
               /\ ~ares.ok /\ ares.status = 401
               /\ ~Did("authenticate") /\ ~Did("verify_token") /\ ~ContactedIdp

\* a request with all three kinds of credentials, whose bearer token is turned
\* down: the call fails although the other two were there to try
C8_Witness ==
    /\ AuthCalled /\ ~ares.ok
    /\ ares.request.jwt_token # None /\ ares.request.basic_auth # None
    /\ CarriesKeyId(ares.request.url)
    /\ ares.events[1] = "tokens.get"

\* check_auth ran its signed-URL branch
SignedCase ==
    /\ AuthCalled
    /\ ares.request.jwt_token = None /\ ares.request.basic_auth = None
    /\ contains_key_id(ares.request.url)

\* the URL of the request carries a signature SIGNING_KEYS accepts now
SignatureVerifies ==
    LET f == from_url(ares.request.method, ares.request.url)
    IN  f.ok /\ keys_verify_signed_url(sk, f.resp, now) = "Ok"

C10_CacheHitNoIdp ==
    [][(/\ ares = NoCall /\ ares'.op = "check_auth"
        /\ ares'.request.jwt_token # None
        /\ Get(ares'.request.jwt_token) \in DOMAIN tokens)
       => (/\ ares'.ok
           /\ ares'.info = FromAuth(tokens[Get(ares'.request.jwt_token)])
           /\ Count(ares'.events, "fetch") = 0
           /\ Count(ares'.events, "token_request") = 0
           /\ Count(ares'.events, "verify_token") = 0
           /\ UNCHANGED <<jwks_cache, tokens, passwd>>)]_vars

\* a cached bearer token resolved while no KeySet is cached: verifying it
\* would have needed a fetch
C10_Witness ==
    /\ AuthCalled /\ ares.ok
    /\ ares.request.jwt_token # None
    /\ Get(ares.request.jwt_token) \in DOMAIN tokens
    /\ ares.info = FromAuth(tokens[Get(ares.request.jwt_token)])
    /\ ares.events = <<"tokens.get">>
    /\ jwks_cache = None

-----------------------------------------------------------------------------
(* Properties of the Credential Exchanger *)

\* the key of the credential-pair cache
PairKey(auth_req) == auth_req.username \o ":" \o auth_req.password

\* this step is a call of op, made while no call is pending
Calls(op) == ares = NoCall /\ ares'.op = op

\* C11: a successful authenticate that asked the identity provider leaves its
\* session in the credential-pair cache, and an authenticate with use_cache
\* set, made while the pair has an entry, returns that entry, sends no token
\* request and changes no cache.
C11_LoginCache ==
    [][Calls("authenticate") =>
         LET key == PairKey(ares'.request)
         IN  /\ ares'.ok /\ Count(ares'.events, "token_request") > 0
                  => key \in DOMAIN passwd' /\ passwd'[key] = ares'.info.auth
             /\ ares'.request.use_cache /\ key \in DOMAIN passwd
                  => /\ ares'.ok
                     /\ ares'.info = FromAuth(passwd[key])
                     /\ Count(ares'.events, "token_request") = 0
                     /\ UNCHANGED <<passwd, tokens, jwks_cache>>]_vars

\* a login answered from the credential-pair cache
C11_Witness ==
    /\ ares.op = "authenticate" /\ ares.ok
    /\ ares.request.use_cache
    /\ ares.events = <<"passwd.get">>
    /\ PairKey(ares.request) \in DOMAIN passwd
    /\ ares.info = FromAuth(passwd[PairKey(ares.request)])

\* the token cache tk with the session a stored under its hash and its text
WithSession(tk, a) == (a.jwt_token :> a) @@ ((a.token_hash :> a) @@ tk)

\* C12: an authenticate that obtained a session from the identity provider
\* stores it under the credential pair, the token hash and the raw token and
\* changes nothing else; a successful refresh_token stores it under the token
\* hash and the raw token and leaves the credential-pair cache as it was; a
\* failed call of either leaves every cache as it was.
C12_CachePopulation ==
    [][(Calls("authenticate") \/ Calls("refresh_token")) =>
         /\ ~ares'.ok => UNCHANGED <<passwd, tokens>>
         /\ ares'.ok /\ Count(ares'.events, "token_request") > 0 =>
              LET a == ares'.info.auth
              IN  /\ tokens' = WithSession(tokens, a)
                  /\ a.token_hash = hash_token(a.jwt_token)
                  /\ IF ares'.op = "authenticate"
                     THEN passwd' = (PairKey(ares'.request) :> a) @@ passwd
                     ELSE passwd' = passwd]_vars

\* a refresh that brought a session the credential-pair cache does not hold
C12_Witness ==
    /\ ares.op = "refresh_token" /\ ares.ok
    /\ tokens[ares.info.auth.jwt_token] = ares.info.auth
    /\ tokens[ares.info.auth.token_hash] = ares.info.auth
    /\ \A k \in DOMAIN passwd : passwd[k] # ares.info.auth
    /\ passwd # <<>>

-----------------------------------------------------------------------------
(* How the resolver reports failures *)

\* the token text whose claims an authenticated result carries
ClaimsOf(info) == IF info.kind = "FromAuth" THEN info.auth.claims ELSE info.claims

\* the claims of the token name a non-empty resource id that is no folder
UnknownResource(text) ==
    LET tok == JwtOf(text)
    IN  ~tok.malformed /\ tok.fs # None /\ Get(tok.fs) # "" /\ Get(tok.fs) \notin Folders

\* C13: no call of authenticate, refresh_token or check_auth succeeds for
\* claims whose non-empty default resource id is not a key of the folder map.
C13_UnknownResourceFails ==
    ares.op \in {"authenticate", "refresh_token", "check_auth"} /\ ares.ok
      => ~UnknownResource(ClaimsOf(ares.info))

\* the KeySet was available to the call: the cache holds one that is fresh
JwksAvailable ==
    jwks_cache # None /\ now - Get(jwks_cache).fetched_at < JwksTtlSecs

\* the bearer token of the request is at fault: it is no JWT, it names no
\* key id, or it names a key id the available KeySet does not hold
BearerAtFault ==
    /\ ares.request.jwt_token # None
    /\ JwksAvailable
    /\ LET tok == JwtOf(Get(ares.request.jwt_token))
       IN  \/ tok.malformed
           \/ tok.kid = NoStr
           \/ find_key(Get(jwks_cache).jwks, tok.kid) = None

\* C14: a check_auth that fails because of the credential itself fails with
\* status 401: a bearer token that is malformed or names an absent key id, a
\* password the provider rejects, a signed URL that does not verify.
C14_RejectionsAre401 ==
    AuthCalled /\ ~ares.ok =>
      /\ BearerAtFault => ares.status = 401
      /\ ares.grant = "rejected" => ares.status = 401
      /\ SignedCase /\ ~SignatureVerifies => ares.status = 401

\* the call asked for the KeySet and did not get it
JwksFetchFailed ==
    /\ Did("fetch")
    /\ jwks_cache = None \/ Get(jwks_cache).fetched_at # now

\* C15: a check_auth during which the identity provider could not be reached
\* (JWKS fetch, password grant) fails with a 5xx status.
C15_TransportFailuresAre5xx ==
    AuthCalled =>
      /\ ares.request.jwt_token # None /\ JwksFetchFailed
           => ~ares.ok /\ ares.status >= 500
      /\ ares.grant = "unreachable" => ~ares.ok /\ ares.status >= 500

-----------------------------------------------------------------------------
(* The Metadata Store and the Descriptor Extraction Pipeline *)

EndsWith(str, suffix) ==
    Len(str) >= Len(suffix)
      /\ SubSeq(str, Len(str) - Len(suffix) + 1, Len(str)) = suffix

\* regex.is_match(&file_name) for the configured description-file pattern
is_match(file_name) == EndsWith(file_name, ".docx")

FileDesc(id, chi_descr) == [id |-> id, chi_descr |-> chi_descr]

\* the files that may appear in the watch directory
WatchFiles == {"a.docx", "b.docx", "bad.docx", "norows.docx", "x.txt"}

\* str::trim on the texts of the model: spaces at both ends are dropped
RECURSIVE Trim(_)
Trim(s) ==
    IF Len(s) = 0 THEN s
    ELSE IF SubSeq(s, 1, 1) = " " THEN Trim(SubSeq(s, 2, Len(s)))
    ELSE IF SubSeq(s, Len(s), Len(s)) = " " THEN Trim(SubSeq(s, 1, Len(s) - 1))
    ELSE s

LowerLetters == "abcdefghijklmnopqrstuvwxyz"

\* [a-z]
IsLower(c) == \E i \in 1..Len(LowerLetters) : SubSeq(LowerLetters, i, i) = c

\* formatter::is_chinese(c); the ideographs of the model's documents are
\* written X and Y
IsChinese(c) == c \in {"X", "Y"}

\* the character of s at position i, "" past its end
CharAt(s, i) == IF i >= 1 /\ i <= Len(s) THEN SubSeq(s, i, i) ELSE ""

\* the length of the run of decimal digits of s that starts at position i
DigitRun(s, i) ==
    CHOOSE k \in 0..Len(s) :
        /\ \A m \in i..(i + k - 1) : IsDigit(CharAt(s, m))
        /\ ~IsDigit(CharAt(s, i + k))

\* RE_ZSV_VIDEO_ID.captures(fname), file_monitor.rs:
\* ^zsv(\d{6}[e]?)-(\d{1,3}[a-z]?)-(?:(\d{1,3}[a-z]?)-)?   groups 1 and 2
zsv_video_id(fname) ==
    LET dash == IF CharAt(fname, 10) = "e" THEN 11 ELSE 10
        k == DigitRun(fname, dash + 1)
        end == IF IsLower(CharAt(fname, dash + 1 + k)) THEN dash + k + 2 ELSE dash + k + 1
    IN  IF /\ Len(fname) >= 9 /\ SubSeq(fname, 1, 3) = "zsv"
           /\ IsNumeric(SubSeq(fname, 4, 9))
           /\ CharAt(fname, dash) = "-"
           /\ k \in 1..3
           /\ CharAt(fname, end) = "-"
        THEN Some([date |-> SubSeq(fname, 4, dash - 1),
                   event |-> SubSeq(fname, dash + 1, end - 1)])
        ELSE None

\* RE_ZSV_INDEX_SINGLE.is_match(s) of file_monitor.rs: ^(\d[a-z]?)$
index_single(s) ==
    \/ Len(s) = 1 /\ IsDigit(s)
    \/ Len(s) = 2 /\ IsDigit(SubSeq(s, 1, 1)) /\ IsLower(SubSeq(s, 2, 2))

\* the code name and the Chinese description of the second cell: the text
\* is cut where its first ideograph stands
split_name(full) ==
    LET han == {i \in 1..Len(full) : IsChinese(SubSeq(full, i, i))}
        pos == CHOOSE i \in han : \A o \in han : i <= o
    IN  IF han # {}
        THEN [fname |-> Trim(SubSeq(full, 1, pos - 1)),
              chi_descr |-> Trim(SubSeq(full, pos, Len(full)))]
        ELSE [fname |-> Trim(full), chi_descr |-> ""]

\* one turn of the loop over the data rows: None when the row is skipped
\* (not three cells, seq or file_count not a number, unknown identifier)
parse_row(row) ==
    LET cells == [k \in 1..Len(row) |-> Trim(row[k])]
        nm == split_name(cells[2])
        caps == zsv_video_id(nm.fname)
    IN  IF Len(cells) # 3 THEN None
        ELSE IF ~IsNumeric(cells[1]) THEN None
        ELSE IF ~IsNumeric(cells[3]) THEN None
        ELSE IF caps = None THEN None
        ELSE Some(FileDesc("zsv" \o Get(caps).date \o "-"
                             \o (IF index_single(Get(caps).event)
                                 THEN "0" \o Get(caps).event ELSE Get(caps).event),
                           nm.chi_descr))

RECURSIVE parse_rows_StopAtBad(_)
\* a loop that gives up the rest of the table at the first row it skips
parse_rows_StopAtBad(data_rows) ==
    IF data_rows = <<>> THEN <<>>
    ELSE IF parse_row(data_rows[1]) = None THEN <<>>
    ELSE parse_row(data_rows[1]) \o parse_rows_StopAtBad(Tail(data_rows))

RECURSIVE parse_rows(_)
\* the loop over the data rows: the records of the rows that are not skipped
parse_rows(data_rows) ==
    IF data_rows = <<>> THEN <<>>
    ELSE parse_row(data_rows[1]) \o parse_rows(Tail(data_rows))

\* the description documents: whether the file can be read as a document,
\* and the rows of its first table (None: the document has no table); a row
\* is the texts of its cells
Document(file) ==
    CASE file = "a.docx" ->
           [readable |-> TRUE,
            table |-> Some(<< <<"seq", "name", "count">>,
                              <<"1", "zsv250101-1-SvcXa", "3">>,
                              <<"5", "zsv250101-5-Svc">>,
                              <<"x", "zsv250101-6-SvcXx", "1">>,
                              <<"7", "zsv250101-7-SvcXx", "">>,
                              <<"8", "notes", "1">>,
                              <<" 2 ", "zsv250101-2-Svc Xb", "1">> >>)]
      [] file = "b.docx" ->
           [readable |-> TRUE,
            table |-> Some(<< <<"seq", "name", "count">>,
                              <<"1", "zsv250101-2-SvcYb", "2">> >>)]
      [] file = "bad.docx" -> [readable |-> TRUE, table |-> None]
      [] file = "norows.docx" -> [readable |-> TRUE, table |-> Some(<<>>)]
      [] OTHER -> [readable |-> FALSE, table |-> None]

\* read_file_descriptor(path): the records of the document's table, an error
\* (unreadable file, no table), or a panic (rows[1..] of a table without rows)
read_file_descriptor(file) ==
    LET doc == Document(file)
    IN  IF ~doc.readable \/ doc.table = None THEN [kind |-> "Err"]
        ELSE IF Len(Get(doc.table)) = 0 THEN [kind |-> "Panic"]
        ELSE [kind |-> "Ok", records |-> parse_rows(Tail(Get(doc.table)))]

\* read_file_descriptor of every file of the watch directory
DescriptorOf == [f \in WatchFiles |-> read_file_descriptor(f)]

\* the file names in ascending byte order, as Vec<String>::sort orders them
NameOrder == <<"a.docx", "b.docx", "bad.docx", "norows.docx", "x.txt">>

\* a sort that puts the greatest name first
SortNames_Descending(S) ==
    LET asc == SelectSeq(NameOrder, LAMBDA x : x \in S)
    IN  [i \in 1..Len(asc) |-> asc[Len(asc) + 1 - i]]

\* new_files.sort(): the names of the set S in ascending order
SortNames(S) == SelectSeq(NameOrder, LAMBDA x : x \in S)

\* the files of the directory that are not yet seen; a gate that lets every
\* file through
new_files_NoGate(current_files, seen) == SortNames(current_files)

\* the new files of a tick: those filename_exists does not know, sorted
new_files(current_files, seen) == SortNames({f \in current_files : f \notin seen})

\* a tick that marks only the documents it could extract
files_to_mark_Extracted(sc) == sc.current_files \ sc.failed

\* the names insert_filenames is given at the end of a tick
files_to_mark(sc) == sc.current_files

\* table.insert that writes straight into the committed table
table_insert_WriteThrough(committed, pending, d) ==
    [committed |-> (d.id :> d) @@ committed, pending |-> (d.id :> d) @@ pending]

\* table.insert(id, serialized) inside a write transaction: only the
\* transaction's own copy of the table changes
table_insert(committed, pending, d) ==
    [committed |-> committed, pending |-> (d.id :> d) @@ pending]

\* the table after every insert of insert_file_descs(batch) is applied to t
RECURSIVE ApplyBatch(_, _)
ApplyBatch(t, batch) ==
    IF batch = <<>> THEN t
    ELSE ApplyBatch((batch[1].id :> batch[1]) @@ t, Tail(batch))

\* the extraction loop between two ticks; last is how its last tick ended
Idle(last, sc) ==
    [pc |-> "idle", last |-> last, current_files |-> sc.current_files,
     parsed |-> sc.parsed, failed |-> sc.failed]

NoTick == [current_files |-> {}, parsed |-> {}, failed |-> {}]

InitIngest ==
    /\ now = 0
    /\ sk = SigningKeysNew(LongWindow, LongWindow)
    /\ minted = {} /\ issued = None /\ res = NoRes
    /\ jwks_cache = None /\ vt = NoCall
    /\ tokens = <<>> /\ passwd = <<>> /\ ares = NoCall
    /\ dir = {} /\ filenames = {} /\ filedesc = <<>>
    /\ scan = Idle("none", NoTick) /\ mutex = "free"
    /\ chdir = <<>> /\ channel_cache = <<>>
    /\ rx1 = <<>> /\ rx2 = <<>> /\ sent = <<>> /\ stage_b = [pc |-> "recv"]
    /\ lres = [op |-> "none"]

identityVars == <<now, signVars, tokVars, authVars>>

\* a description document (or another file) appears in the watch directory
AddFile ==
    /\ \E f \in WatchFiles \ dir : dir' = dir \cup {f}
    /\ UNCHANGED <<identityVars, filenames, filedesc, scan, mutex, listVars>>

\* a file is removed from the watch directory
RemoveFile ==
    /\ \E f \in dir : dir' = dir \ {f}
    /\ UNCHANGED <<identityVars, filenames, filedesc, scan, mutex, listVars>>

\* a storage call of the tick returns an error: scan_and_store returns Err
\* through `?`, the open transaction and the mutex guard are dropped
TickFails == /\ scan' = Idle("Err", scan) /\ mutex' = "free"

\* a tick that marks the files seen before it reads them
TickStart_MarkFirst ==
    /\ scan.pc = "idle" /\ mutex = "free"
    /\ LET current_files == {f \in dir : is_match(f)}
           sc == [pc |-> "files", current_files |-> current_files,
                  new_files |-> new_files(current_files, filenames), i |-> 1,
                  parsed |-> {}, failed |-> {}]
       IN  /\ scan' = sc /\ mutex' = "scan"
           /\ filenames' = filenames \cup current_files
    /\ UNCHANGED <<identityVars, dir, filedesc, listVars>>

\* scan_and_store up to new_files.sort(): read the directory, take the
\* mutex, ask filename_exists for every matching file
TickStart ==
    /\ scan.pc = "idle" /\ mutex = "free"
    /\ LET current_files == {f \in dir : is_match(f)}
           sc == [pc |-> "files", current_files |-> current_files,
                  new_files |-> new_files(current_files, filenames), i |-> 1,
                  parsed |-> {}, failed |-> {}]
       IN  \/ /\ scan' = sc /\ mutex' = "scan"
           \/ /\ current_files # {}
              /\ scan' = Idle("Err", sc) /\ mutex' = "free"
    /\ UNCHANGED <<identityVars, dir, filenames, filedesc, listVars>>

\* the loop body for the next new file: read_file_descriptor, and on Ok the
\* begin_write of insert_file_descs
ParseFile ==
    /\ scan.pc = "files" /\ scan.i <= Len(scan.new_files)
    /\ LET file == scan.new_files[scan.i]
           doc == read_file_descriptor(file)
           sc == [scan EXCEPT !.parsed = @ \cup {file}]
       IN  CASE doc.kind = "Err" ->
                  /\ scan' = [sc EXCEPT !.failed = @ \cup {file}, !.i = @ + 1]
                  /\ UNCHANGED mutex
             [] doc.kind = "Panic" ->
                  /\ scan' = [pc |-> "dead"] /\ mutex' = "poisoned"
             [] doc.kind = "Ok" ->
                  \/ /\ scan' = [pc |-> "txn", batch |-> doc.records, j |-> 1,
                                 pending |-> filedesc] @@ sc
                     /\ UNCHANGED mutex
                  \/ /\ scan' = Idle("Err", sc) /\ mutex' = "free"
    /\ UNCHANGED <<identityVars, dir, filenames, filedesc, listVars>>

\* one turn of the loop of insert_file_descs: serialize and table.insert
InsertDesc ==
    /\ scan.pc = "txn" /\ scan.j <= Len(scan.batch)
    /\ \/ \E r \in {table_insert(filedesc, scan.pending, scan.batch[scan.j])} :
            /\ filedesc' = r.committed
            /\ scan' = [scan EXCEPT !.pending = r.pending, !.j = @ + 1]
            /\ UNCHANGED mutex
       \/ TickFails /\ UNCHANGED filedesc
    /\ UNCHANGED <<identityVars, dir, filenames, listVars>>

\* txn.commit() of insert_file_descs
Commit ==
    /\ scan.pc = "txn" /\ scan.j > Len(scan.batch)
    /\ \/ /\ filedesc' = scan.pending
          /\ scan' = [pc |-> "files", current_files |-> scan.current_files,
                      new_files |-> scan.new_files, i |-> scan.i + 1,
                      parsed |-> scan.parsed, failed |-> scan.failed]
          /\ UNCHANGED mutex
       \/ TickFails /\ UNCHANGED filedesc
    /\ UNCHANGED <<identityVars, dir, filenames, listVars>>

\* insert_filenames(current_files) and the return of scan_and_store
MarkSeen ==
    /\ scan.pc = "files" /\ scan.i > Len(scan.new_files)
    /\ \/ /\ filenames' = filenames \cup files_to_mark(scan)
          /\ scan' = Idle("Ok", scan) /\ mutex' = "free"
       \/ TickFails /\ UNCHANGED filenames
    /\ UNCHANGED <<identityVars, dir, filedesc, listVars>>

\* the process stops and is started again: what is not committed is lost
Crash ==
    /\ scan.pc # "idle"
    /\ scan' = Idle("Crash", NoTick) /\ mutex' = "free"
    /\ UNCHANGED <<identityVars, dir, filenames, filedesc, listVars>>

\* get_batch_file_desc(ids) by a caller that holds the mutex: one read
\* transaction over the committed table
GetBatchFileDesc ==
    /\ mutex = "free"
    /\ \E ids \in {<<"zsv250101-01", "zsv250101-02">>} :
         LET found == SelectSeq(ids, LAMBDA id : id \in DOMAIN filedesc)
         IN  lres' = [op |-> "get_batch_file_desc", ids |-> ids,
                      result |-> [k \in 1..Len(found) |-> filedesc[found[k]]]]
    /\ UNCHANGED <<identityVars, ingestVars, chdir, channel_cache, rx1, rx2, sent, stage_b>>

NextIngest ==
    \/ AddFile \/ RemoveFile \/ TickStart \/ ParseFile \/ InsertDesc \/ Commit
    \/ MarkSeen \/ Crash \/ GetBatchFileDesc

SpecIngest == InitIngest /\ [][NextIngest]_vars

-----------------------------------------------------------------------------
(* Properties of the Metadata Store and of the extraction loop *)

\* the tick is under way
InTick == scan.pc \in {"files", "txn"}

\* this step ends a tick with the return of scan_and_store
TickReturns(last) == InTick /\ scan'.pc = "idle" /\ scan'.last = last

\* C16: the committed descriptor table changes only by the commit of a whole
\* batch: every step leaves it as it was or replaces it by the table with
\* every insert of the batch applied, whether insert_file_descs goes on to
\* return Ok, returns an error part-way or the process stops; no transaction
\* is open while a reader can hold the store, and a reader gets the
\* committed descriptors.
C16_BatchAtomic ==
    /\ [][filedesc' # filedesc =>
            /\ scan.pc = "txn" /\ scan.j > Len(scan.batch)
            /\ filedesc' = ApplyBatch(filedesc, scan.batch)]_vars
    /\ [](mutex = "free" => scan.pc = "idle")
    /\ [][lres' # lres /\ lres'.op = "get_batch_file_desc" =>
            \A k \in 1..Len(lres'.result) :
               /\ lres'.result[k].id \in DOMAIN filedesc
               /\ lres'.result[k] = filedesc[lres'.result[k].id]]_vars

\* a batch of two descriptors is half-way: the transaction holds the first,
\* the committed table holds none
C16_Witness ==
    /\ scan.pc = "txn" /\ Len(scan.batch) = 2 /\ scan.j = 2
    /\ scan.batch[1].id \in DOMAIN scan.pending
    /\ filedesc = <<>>

\* C17: a tick that returns Ok has marked every matching file of the
\* directory seen, seen names are never forgotten, and a tick over a
\* directory whose matching files are all seen parses no document, opens no
\* write transaction on the descriptors and leaves the descriptor table
\* as it was.
C17_IdempotentIngestion ==
    /\ [][TickReturns("Ok") => scan.current_files \subseteq filenames']_vars
    /\ [][filenames \subseteq filenames']_vars
    /\ [](InTick /\ scan.current_files \subseteq filenames =>
            /\ scan.new_files = <<>> /\ scan.parsed = {}
            /\ scan.pc # "txn")
    /\ [][InTick /\ scan.current_files \subseteq filenames
            => filedesc' = filedesc]_vars

\* a tick over a directory that holds a document ingested by an earlier tick
\* has come to its end without parsing anything
C17_Witness ==
    /\ scan.pc = "idle" /\ scan.last = "Ok"
    /\ "a.docx" \in scan.current_files
    /\ scan.parsed = {}
    /\ "zsv250101-01" \in DOMAIN filedesc

-----------------------------------------------------------------------------
(* The Listing Refresh Pipeline and the Channel Cache                       *)
(* (storage.rs channel_descriptions / fill_descriptions, file_monitor.rs    *)
(* Stages A, B and C, handler.rs list_files).                               *)

\* the media files that may lie in a channel's directory:
\* "zsv" \o yymmdd \o "-" \o event \o ".mp4"
MediaFiles == {"zsv250101-1.mp4", "zsv250101-2.mp4"}

UpperLetters == "ABCDEFGHIJKLMNOPQRSTUVWXYZ"

\* \w on the texts of the model
IsWord(c) ==
    \/ IsDigit(c) \/ IsLower(c) \/ c = "_"
    \/ \E i \in 1..Len(UpperLetters) : SubSeq(UpperLetters, i, i) = c

\* the length of the run of word characters of s that starts at position i
WordRun(s, i) ==
    CHOOSE k \in 0..Len(s) :
        /\ \A m \in i..(i + k - 1) : IsWord(CharAt(s, m))
        /\ ~IsWord(CharAt(s, i + k))

\* RE_ZSV_PATTERN.captures(base), files.rs, groups 1 to 4 of
\* ^zsv(\d{6})(e?)-(\d{1,2}[a-z]|\w+)(?:-(\d{1,2}z?)(?:-([^(.]+))?)?
\* the first alternative of group 3 is tried first
zsv_pattern(base) ==
    LET e == IF CharAt(base, 10) = "e" THEN "e" ELSE ""
        ev == IF e = "e" THEN 12 ELSE 11
        d1 == IsDigit(CharAt(base, ev))
        d2 == IsDigit(CharAt(base, ev + 1))
        n3 == IF d1 /\ d2 /\ IsLower(CharAt(base, ev + 2)) THEN 3
              ELSE IF d1 /\ IsLower(CharAt(base, ev + 1)) THEN 2
              ELSE WordRun(base, ev)
        ix == ev + n3 + 1
        nx == IF CharAt(base, ev + n3) = "-" /\ IsDigit(CharAt(base, ix))
              THEN (IF IsDigit(CharAt(base, ix + 1)) THEN 2 ELSE 1)
              ELSE 0
        z == IF nx > 0 /\ CharAt(base, ix + nx) = "z" THEN 1 ELSE 0
    IN  IF /\ Len(base) >= 9 /\ SubSeq(base, 1, 3) = "zsv"
           /\ IsNumeric(SubSeq(base, 4, 9))
           /\ CharAt(base, ev - 1) = "-"
           /\ n3 >= 1
        THEN Some([file_date_stamp |-> SubSeq(base, 4, 9), day_night |-> e,
                   event |-> SubSeq(base, ev, ev + n3 - 1),
                   index |-> SubSeq(base, ix, ix + nx + z - 1)])
        ELSE None

\* MediaEntry::from_entry for a file whose name RE_ZSV_PATTERN matches:
\* parse_file_name cuts the date stamp, the event and the index out of the
\* name, and pub_date is midnight of the stamp's day (in seconds from the
\* start of the stamp's month: the files of MediaFiles are all of one month)
from_entry(file_name) ==
    LET caps == Get(zsv_pattern(file_name))
    IN  [file_name |-> file_name, description |-> "",
         file_date_stamp |-> caps.file_date_stamp,
         pub_date |-> (ParseU64(SubSeq(caps.file_date_stamp, 5, 6)) - 1) * 86400,
         event |-> IF caps.event = "List" THEN "" ELSE caps.event,
         index |-> caps.index]

\* RE_ZSV_INDEX_SINGLE: ^(\d[a-z]?)$
IsSingleIndex(event) ==
    \/ Len(event) = 1 /\ IsDigit(event)
    \/ Len(event) = 2 /\ IsDigit(SubSeq(event, 1, 1)) /\ ~IsDigit(SubSeq(event, 2, 2))

\* MediaEntry::normalized_event_id(prefix)
normalized_event_id(entry, prefix) ==
    prefix \o entry.file_date_stamp \o "-"
           \o (IF IsSingleIndex(entry.event) THEN "0" \o entry.event ELSE entry.event)

\* a.cmp(b) = Less or Equal in sort_av_entries: newer date stamp first, then
\* the event, then the index (all three are compared as numbers here: the
\* stamps and events of MediaFiles are digit strings of one length each)
AvLessEq(a, b) ==
    LET da == ParseU64(a.file_date_stamp)
        db == ParseU64(b.file_date_stamp)
    IN  \/ da > db
        \/ da = db /\ ParseU64(a.event) < ParseU64(b.event)
        \/ da = db /\ a.event = b.event /\ ParseU64(a.index) <= ParseU64(b.index)

RECURSIVE AvInsert(_, _)
AvInsert(e, sorted) ==
    IF sorted = <<>> THEN <<e>>
    ELSE IF AvLessEq(sorted[1], e) THEN <<sorted[1]>> \o AvInsert(e, Tail(sorted))
    ELSE <<e>> \o sorted

RECURSIVE AvSort(_)
\* files.sort_by(...): a stable sort
AvSort(files) ==
    IF files = <<>> THEN <<>>
    ELSE AvInsert(files[Len(files)], AvSort(SubSeq(files, 1, Len(files) - 1)))

\* sort_av_entries(files): the sort, then the entries of one date stamp get
\* pub dates one second apart, counted down from the first one's pub date
sort_av_entries(files) ==
    LET sorted == AvSort(files)
        Group(k) == {j \in 1..Len(sorted) :
                        sorted[j].file_date_stamp = sorted[k].file_date_stamp}
        First(k) == CHOOSE j \in Group(k) : \A o \in Group(k) : j <= o
    IN  [k \in 1..Len(sorted) |->
           IF Cardinality(Group(k)) > 1
           THEN [sorted[k] EXCEPT !.pub_date =
                    sorted[First(k)].pub_date + Cardinality(Group(k)) - 1 - (k - First(k))]
           ELSE sorted[k]]

\* Channel::set_entries(entries) of a channel whose filter_extension keeps
\* every file of MediaFiles
set_entries(channel, entries) ==
    [channel EXCEPT !.entries = IF Len(entries) > 0 THEN sort_av_entries(entries) ELSE entries]

\* the configured channels
Channels == {[name |-> "c1", copy_lang |-> "zh", entries |-> <<>>]}

\* Channel::cache_id(): format!("{}/{}", copy_lang, name)
cache_id(channel) == channel.copy_lang \o "/" \o channel.name

CacheIds == {cache_id(ch) : ch \in Channels}

\* the orders in which fs::read_dir may yield the files of a directory
read_dir(files) ==
    {q \in UNION {[1..n -> files] : n \in {Cardinality(files)}} :
        \A i, j \in 1..Len(q) : i # j => q[i] # q[j]}

\* MediaEntry::from_entry for each media file of the model
EntryOf == [f \in MediaFiles |-> from_entry(f)]

\* Channel::read_dir(channel): one MediaEntry per file, in the order read
ReadEntries(q) == [k \in 1..Len(q) |-> EntryOf[q[k]]]

\* formatter::normalize_code(event): some fixed rewriting of the event code
normalize_code(code) == "n" \o code

\* the description of one entry after the merge
fill_entry(channel, entry, cached_entries, table) ==
    LET key == normalized_event_id(entry, "zsv")
        hits == {j \in 1..Len(cached_entries) :
                    normalized_event_id(cached_entries[j], "zsv") = key}
        last == CHOOSE j \in hits : \A o \in hits : o <= j
        evt0 == normalize_code(entry.event)
        evt1 == IF entry.index # "" THEN evt0 \o "-" \o entry.index ELSE evt0
        evt == IF evt1 # "" THEN " (" \o evt1 \o ")" ELSE evt1
    IN  IF key \in DOMAIN table
        THEN IF StartsWith(channel.copy_lang, "zh") /\ table[key].chi_descr # ""
             THEN [entry EXCEPT !.description = table[key].chi_descr \o evt]
             ELSE entry
        ELSE IF channel.copy_lang = "zh" /\ hits # {}
             THEN [entry EXCEPT !.description = cached_entries[last].description]
             ELSE entry

\* Storage::fill_descriptions(channel, cached_ch) over the committed table
fill_descriptions(channel, cached_ch, table) ==
    LET cached_entries == IF cached_ch = None THEN <<>> ELSE Get(cached_ch).channel.entries
    IN  set_entries(channel,
            [k \in 1..Len(channel.entries) |->
                fill_entry(channel, channel.entries[k], cached_entries, table)])

\* what channel_descriptions compares: (file_name, description, pub_date)
Info(channel) ==
    [k \in 1..Len(channel.entries) |->
        <<channel.entries[k].file_name, channel.entries[k].description,
          channel.entries[k].pub_date>>]

\* a slot of the Channel Cache: the snapshot and the time it was computed
Slot(channel, t) == [channel |-> channel, computed_at |-> t]

cache_get(cache, id) == IF id \in DOMAIN cache THEN Some(cache[id]) ELSE None

\* channel_descriptions that stores the snapshot at every call
channel_descriptions_AlwaysStore(ch, cache, table, t, fill_ok) ==
    LET cached_ch_option == cache_get(cache, cache_id(ch))
        filled_ch == fill_descriptions(ch, cached_ch_option, table)
        changed == IF cached_ch_option # None
                   THEN Info(filled_ch) # Info(Get(cached_ch_option).channel)
                   ELSE TRUE
    IN  IF ~fill_ok
        THEN [ok |-> FALSE, cached |-> cached_ch_option, filled |-> ch,
              changed |-> FALSE, cache |-> cache]
        ELSE [ok |-> TRUE, cached |-> cached_ch_option, filled |-> filled_ch,
              changed |-> changed,
              cache |-> (cache_id(ch) :> Slot(filled_ch, t)) @@ cache]

\* Storage::channel_descriptions(ch, cache) at time t; fill_ok tells whether
\* the read transaction of fill_descriptions could be had
channel_descriptions(ch, cache, table, t, fill_ok) ==
    LET cached_ch_option == cache_get(cache, cache_id(ch))
        filled_ch == fill_descriptions(ch, cached_ch_option, table)
        changed == IF cached_ch_option # None
                   THEN Info(filled_ch) # Info(Get(cached_ch_option).channel)
                   ELSE TRUE
    IN  IF ~fill_ok
        THEN [ok |-> FALSE, cached |-> cached_ch_option, filled |-> ch,
              changed |-> FALSE, cache |-> cache]
        ELSE [ok |-> TRUE, cached |-> cached_ch_option, filled |-> filled_ch,
              changed |-> changed,
              cache |-> IF changed
                        THEN (cache_id(ch) :> Slot(filled_ch, t)) @@ cache
                        ELSE cache]

-----------------------------------------------------------------------------
(* The pipeline and the listing handler as a state machine *)

QueueCap == 1           \* capacity of the channels between the stages
ListStep == 150         \* seconds between two instants of the listing clock
ListMaxTime == 450      \* the listing clock stops here
CacheTtlSecs == 300     \* list_files: age below which a slot is served

\* the description documents whose ingestion the pipeline may observe
IngestedDocs == {"a.docx", "b.docx"}

NoStageB == [pc |-> "recv"]

\* no call of channel_descriptions or list_files awaits its return
NoListCall == lres = [op |-> "none"]

InitListing ==
    /\ now = 0
    /\ sk = SigningKeysNew(LongWindow, LongWindow)
    /\ minted = {} /\ issued = None /\ res = NoRes
    /\ jwks_cache = None /\ vt = NoCall
    /\ tokens = <<>> /\ passwd = <<>> /\ ares = NoCall
    /\ dir = {} /\ filenames = {} /\ filedesc = <<>>
    /\ scan = Idle("none", NoTick) /\ mutex = "free"
    /\ chdir = [id \in CacheIds |-> {}] /\ channel_cache = <<>>
    /\ rx1 = <<>> /\ rx2 = <<>> /\ sent = <<>> /\ stage_b = NoStageB
    /\ lres = [op |-> "none"]

idVarsNoClock == <<signVars, tokVars, authVars>>

\* time passes
TickListing ==
    /\ NoListCall
    /\ now + ListStep <= ListMaxTime
    /\ now' = now + ListStep
    /\ UNCHANGED <<idVarsNoClock, ingestVars, listVars>>

\* a media file appears in, or disappears from, a channel's directory
DirChange ==
    /\ NoListCall
    /\ \E id \in CacheIds, f \in MediaFiles :
         chdir' = [chdir EXCEPT ![id] = IF f \in @ THEN @ \ {f} ELSE @ \cup {f}]
    /\ UNCHANGED <<identityVars, ingestVars, channel_cache, rx1, rx2, sent, stage_b, lres>>

\* the extraction loop commits the descriptors of one document
\* (scan_and_store between two steps of the pipeline: insert_file_descs)
IngestDocument ==
    /\ NoListCall /\ mutex = "free"
    /\ \E f \in IngestedDocs :
         /\ filedesc' = ApplyBatch(filedesc, read_file_descriptor(f).records)
         /\ filedesc' # filedesc
    /\ UNCHANGED <<identityVars, dir, filenames, scan, mutex, listVars>>

\* Stage A with a send that does not wait: when the queue is full the item
\* at its tail gives way to the new one
StageA_DropWhenFull ==
    /\ NoListCall
    /\ \E ch \in Channels :
         \E q \in read_dir(chdir[cache_id(ch)]) :
           /\ q # <<>>
           /\ rx1' = Append(IF Len(rx1) < QueueCap THEN rx1 ELSE SubSeq(rx1, 1, Len(rx1) - 1),
                            [cache_id |-> cache_id(ch),
                             ch |-> set_entries(ch, ReadEntries(q))])
    /\ UNCHANGED <<identityVars, ingestVars, chdir, channel_cache, rx2, sent, stage_b, lres>>

\* Stage A, fill_and_queue_channels for one channel: read the directory,
\* skip it when empty, else sort the entries and send the raw channel
StageA ==
    /\ NoListCall /\ Len(rx1) < QueueCap
    /\ \E ch \in Channels :
         \E q \in read_dir(chdir[cache_id(ch)]) :
           /\ q # <<>>
           /\ rx1' = Append(rx1, [cache_id |-> cache_id(ch),
                                  ch |-> set_entries(ch, ReadEntries(q))])
    /\ UNCHANGED <<identityVars, ingestVars, chdir, channel_cache, rx2, sent, stage_b, lres>>

\* the record of one call of channel_descriptions
ListCall(by, id, r, last_sent, t) ==
    [op |-> "channel_descriptions", by |-> by, id |-> id, ok |-> r.ok,
     changed |-> r.changed, cached |-> r.cached, filled |-> r.filled,
     last_sent |-> last_sent, at |-> t]

\* Stage B, fill_descriptions of file_monitor.rs up to the send: receive a
\* raw channel, merge and compare under the storage mutex
StageBRecv ==
    /\ NoListCall /\ stage_b.pc = "recv" /\ rx1 # <<>> /\ mutex = "free"
    /\ \E fill_ok \in BOOLEAN :
       \E r \in {channel_descriptions(rx1[1].ch, channel_cache, filedesc, now, fill_ok)} :
         /\ channel_cache' = r.cache
         /\ stage_b' = IF r.ok /\ r.changed
                       THEN [pc |-> "send", cache_id |-> rx1[1].cache_id, ch |-> r.filled]
                       ELSE NoStageB
         /\ lres' = ListCall("stage_b", rx1[1].cache_id, r,
                             cache_get(sent, rx1[1].cache_id), now)
    /\ rx1' = Tail(rx1)
    /\ UNCHANGED <<identityVars, ingestVars, chdir, rx2, sent>>

\* Stage B, tx.send((cache_id, filled_ch)).await: waits for room in the channel
StageBSend ==
    /\ NoListCall /\ stage_b.pc = "send" /\ Len(rx2) < QueueCap
    /\ rx2' = Append(rx2, [cache_id |-> stage_b.cache_id, ch |-> stage_b.ch])
    /\ sent' = (stage_b.cache_id :> stage_b.ch) @@ sent
    /\ stage_b' = NoStageB
    /\ UNCHANGED <<identityVars, ingestVars, chdir, channel_cache, rx1, lres>>

\* Stage C, rss_writer: take a forwarded snapshot and write its RSS file
StageC ==
    /\ NoListCall /\ rx2 # <<>>
    /\ rx2' = Tail(rx2)
    /\ UNCHANGED <<identityVars, ingestVars, chdir, channel_cache, rx1, sent, stage_b, lres>>

\* the cache check that serves any slot whatever its age
cache_fresh_NoTtl(slot, t) == slot # None

\* list_files, the cache check: there is a slot and it is younger than the TTL
cache_fresh(slot, t) == slot # None /\ t - Get(slot).computed_at < CacheTtlSecs

\* list_files for the directory of a configured channel, the caller being
\* authorised: a slot younger than the TTL is served; else the directory is
\* read and channel_descriptions is called on the same Channel Cache
ListFiles ==
    /\ NoListCall
    /\ \E ch \in Channels :
         \E slot \in {cache_get(channel_cache, cache_id(ch))} :
           IF cache_fresh(slot, now)
           THEN /\ lres' = [op |-> "list_files", id |-> cache_id(ch), hit |-> TRUE,
                            body |-> Get(slot).channel, at |-> now]
                /\ UNCHANGED channel_cache
           ELSE /\ mutex = "free"
                /\ \E q \in read_dir(chdir[cache_id(ch)]), fill_ok \in BOOLEAN :
                   \E r \in {channel_descriptions(set_entries(ch, ReadEntries(q)),
                                                  channel_cache, filedesc, now, fill_ok)} :
                     /\ channel_cache' = r.cache
                     /\ lres' = ListCall("list_files", cache_id(ch), r,
                                         cache_get(sent, cache_id(ch)), now)
    /\ UNCHANGED <<identityVars, ingestVars, chdir, rx1, rx2, sent, stage_b>>

\* the call of channel_descriptions or list_files returns
ReturnListing ==
    /\ ~NoListCall
    /\ lres' = [op |-> "none"]
    /\ UNCHANGED <<identityVars, ingestVars, chdir, channel_cache, rx1, rx2, sent, stage_b>>

NextListing ==
    \/ TickListing \/ DirChange \/ IngestDocument \/ StageA \/ StageBRecv
    \/ StageBSend \/ StageC \/ ListFiles \/ ReturnListing

SpecListing == InitListing /\ [][NextListing]_vars

-----------------------------------------------------------------------------
(* Properties of the change-detection gate and of the Channel Cache *)

\* a call of channel_descriptions made by `by` has just returned Ok
ListCalled(by) ==
    lres.op = "channel_descriptions" /\ lres.by = by /\ lres.ok

\* the merged snapshot of the call differs, in its (file name, description,
\* publish date) tuples, from the snapshot o (or there is no snapshot o)
DiffersFrom(o) == o = None \/ Info(lres.filled) # Info(Get(o))

\* C19: Stage B forwards the merged snapshot of a channel exactly when it has
\* forwarded none for that channel before or the snapshot's tuples differ
\* from those of the one it forwarded last: the same contents twice forward
\* once (the first), changed contents forward once more, unchanged never.
C19_ChangeGate ==
    ListCalled("stage_b") => (lres.changed <=> DiffersFrom(lres.last_sent))

\* the snapshot held in the slot the call read, if any
CachedSnapshot == IF lres.cached = None THEN None ELSE Some(Get(lres.cached).channel)

\* C20: a call of channel_descriptions for a channel id replaces the id's
\* slot, with the merged snapshot and the time of the call, exactly when
\* there was no slot or the tuples of the merged snapshot differ from the
\* cached one's; otherwise the slot, its computed-at time included, is left
\* as it was.  Nothing but such a call changes the Channel Cache.
C20_SlotInvariant ==
    /\ [](lres.op = "channel_descriptions" =>
            IF lres.ok /\ DiffersFrom(CachedSnapshot)
            THEN cache_get(channel_cache, lres.id) = Some(Slot(lres.filled, lres.at))
            ELSE cache_get(channel_cache, lres.id) = lres.cached)
    /\ [][channel_cache' # channel_cache => lres'.op = "channel_descriptions"]_vars

\* list_files has called channel_descriptions on a directory whose merged
\* listing equals the cached one, and the slot keeps its older time
C20_Witness ==
    /\ ListCalled("list_files")
    /\ ~DiffersFrom(CachedSnapshot)
    /\ Len(lres.filled.entries) = 2
    /\ channel_cache[lres.id].computed_at < lres.at

\* the listing handler has just answered from the Channel Cache
ListHit == lres.op = "list_files" /\ lres.hit

\* the listing handler has just found no servable slot and gone on to scan
ListMiss == lres.op = "channel_descriptions" /\ lres.by = "list_files"

\* C21: a lookup by the listing handler is a hit exactly when the channel id
\* has a slot and now - computed_at < 300; a hit answers with the cached
\* snapshot and leaves the cache alone, a miss found no slot or one that is
\* 300 seconds old or older.
C21_CacheTtl ==
    /\ ListHit =>
         /\ lres.id \in DOMAIN channel_cache
         /\ lres.at - channel_cache[lres.id].computed_at < 300
         /\ lres.body = channel_cache[lres.id].channel
    /\ ListMiss =>
         \/ lres.cached = None
         \/ lres.at - Get(lres.cached).computed_at >= 300

\* the listing handler has found a slot exactly 300 seconds old and scanned
\* the directory again
C21_Witness ==
    /\ ListMiss /\ lres.cached # None
    /\ lres.at - Get(lres.cached).computed_at = CacheTtlSecs

-----------------------------------------------------------------------------
(* Back-pressure of the pipeline *)

\* the steps of the pipeline and of the handlers at one instant of the
\* clock: no step of a queue reads the clock
NextPipeline ==
    \/ DirChange \/ IngestDocument \/ StageA \/ StageBRecv
    \/ StageBSend \/ StageC \/ ListFiles \/ ReturnListing

\* The stages are tasks of the async runtime, which polls each of them again
\* and again: a stage that can take its step infinitely often takes it, and
\* a call that has begun returns.
SpecPipeline ==
    /\ InitListing /\ [][NextPipeline]_vars
    /\ SF_vars(StageBRecv) /\ SF_vars(StageBSend) /\ SF_vars(StageC)
    /\ WF_vars(ReturnListing)

\* the item a receive step took from the queue to Stage B was the head of it
ReceivedByStageB ==
    /\ rx1' = Tail(rx1)
    /\ lres'.op = "channel_descriptions" /\ lres'.by = "stage_b"
    /\ lres'.id = rx1[1].cache_id

\* C22: the queues never hold more than their capacity; a queue changes only
\* by a send at its tail, made when there is room, or by the next stage's
\* receive at its head, so that nothing is dropped; and every item sent is
\* received in the end: a queue is empty again and again or the next stage
\* receives from it again and again, and a snapshot Stage B has to forward
\* is sent.
C22_BackPressure ==
    /\ [](Len(rx1) <= QueueCap /\ Len(rx2) <= QueueCap)
    /\ [][\/ rx1' = rx1
          \/ Len(rx1) < QueueCap /\ Len(rx1') = Len(rx1) + 1
               /\ SubSeq(rx1', 1, Len(rx1)) = rx1
          \/ rx1 # <<>> /\ ReceivedByStageB]_vars
    /\ [][\/ rx2' = rx2
          \/ Len(rx2) < QueueCap /\ stage_b.pc = "send"
               /\ rx2' = Append(rx2, [cache_id |-> stage_b.cache_id, ch |-> stage_b.ch])
          \/ rx2 # <<>> /\ rx2' = Tail(rx2)]_vars
    /\ []<>(rx1 = <<>>) \/ []<><<rx1 # <<>> /\ ReceivedByStageB>>_vars
    /\ []<>(rx2 = <<>>) \/ []<><<rx2 # <<>> /\ rx2' = Tail(rx2)>>_vars
    /\ (stage_b.pc = "send") ~> (stage_b.pc = "recv")

\* both queues are full and Stage B waits for room with a changed snapshot
C22_Witness ==
    /\ Len(rx1) = QueueCap /\ Len(rx2) = QueueCap
    /\ stage_b.pc = "send"

-----------------------------------------------------------------------------
(* Properties of the extraction of description documents *)

\* the data rows of a document's table (none when it has no table)
DataRows(file) ==
    LET doc == Document(file)
    IN  IF ~doc.readable \/ doc.table = None \/ Len(Get(doc.table)) = 0 THEN <<>>
        ELSE Tail(Get(doc.table))

\* the ids of the rows of a document that are not to be skipped
GoodRowIds(file) ==
    {Get(parse_row(DataRows(file)[k])).id :
        k \in {n \in 1..Len(DataRows(file)) : parse_row(DataRows(file)[n]) # None}}

\* C23: the batch read from a document holds a record for every row of it
\* that is well formed, whatever rows around it are skipped; and a tick that
\* returns Ok has tried every new document and has stored every well-formed
\* row of each, the documents that could not be read or parsed being skipped.
C23_PartialFailure ==
    /\ [](scan.pc = "txn" =>
            {scan.batch[k].id : k \in 1..Len(scan.batch)}
               = GoodRowIds(scan.new_files[scan.i]))
    /\ [][TickReturns("Ok") =>
            \A k \in 1..Len(scan.new_files) :
               /\ scan.new_files[k] \in scan.parsed
               /\ GoodRowIds(scan.new_files[k]) \subseteq DOMAIN filedesc']_vars

\* a tick has ended in which one document had no table and another, with
\* four rows to skip, was new: both rows of the latter that are well formed
\* are stored
C23_Witness ==
    /\ scan.pc = "idle" /\ scan.last = "Ok"
    /\ "bad.docx" \in scan.failed
    /\ "a.docx" \in scan.parsed
    /\ "norows.docx" \notin scan.current_files
    /\ DOMAIN filedesc = {"zsv250101-01", "zsv250101-02"}
    /\ filedesc["zsv250101-02"].chi_descr = "Xb"

\* C24: whatever the description documents hold, the extraction loop stays
\* alive (it is between two ticks or in one) and the mutex of the Metadata
\* Store can be had again: it is never left poisoned.
C24_NoFatalDocument ==
    scan.pc \in {"idle", "files", "txn"} /\ mutex \in {"free", "scan"}

-----------------------------------------------------------------------------
(* The key of a descriptor and the key of the media files it describes *)

\* the parts of the names of the rows and files tried: date stamps, the
\* marks of morning and evening, event numbers, and the index of a file
KeyStamps == {"250101", "250102", "251231"}

KeyDayNight == {"", "e"}

KeyEvents == {"1", "3", "9", "12", "3a", "12b", "123"}

KeyIndexes == {"", "-1", "-12"}

\* a row of a description document for an event, and a media file of it
KeyRow(stamp, e, event) ==
    <<"1", "zsv" \o stamp \o e \o "-" \o event \o "-Sunday Service Xd", "2">>

KeyFile(stamp, e, event, index) ==
    "zsv" \o stamp \o e \o "-" \o event \o index \o "-SundayService.mp4"

\* a description row is read and stored, and Stage B merges the table into a
\* listing that holds a media file of the row's event
MergeRow ==
    /\ NoListCall
    /\ \E stamp \in KeyStamps, e \in KeyDayNight, event \in KeyEvents, index \in KeyIndexes :
       \E d \in {parse_row(KeyRow(stamp, e, event))},
          entry \in {from_entry(KeyFile(stamp, e, event, index))},
          ch \in Channels :
         /\ d # None
         /\ lres' = [op |-> "merge_row",
                     row |-> KeyRow(stamp, e, event)[2],
                     file_name |-> entry.file_name,
                     id |-> Get(d).id,
                     key |-> normalized_event_id(entry, "zsv"),
                     merged |-> fill_entry(ch, entry, <<>>, (Get(d).id :> Get(d)))]
    /\ UNCHANGED <<identityVars, ingestVars, chdir, channel_cache, rx1, rx2, sent, stage_b>>

NextKeys == MergeRow \/ ReturnListing

SpecKeys == InitListing /\ [][NextKeys]_vars

\* C25: the id under which a row is stored equals the key Stage B computes
\* for a media file of the row's event, and the merge gives the file the
\* row's description.
C25_KeyAgreement ==
    lres.op = "merge_row" =>
        /\ lres.id = lres.key
        /\ lres.merged.description # ""

-----------------------------------------------------------------------------
(* Channel::first_and_last_dates of the browser model (webui channel.rs) *)

MaxEntries == 3         \* most entries of a channel tried
MaxDate == 3            \* pub dates are days 1..MaxDate

\* the entries tried: a file name and a pub_date
DateEntries == [file_name : {"m", "n"}, pub_date : 1..MaxDate]

DateChannels == UNION {[1..n -> DateEntries] : n \in 0..MaxEntries}

RECURSIVE DateInsert(_, _)
DateInsert(e, sorted) ==
    IF sorted = <<>> THEN <<e>>
    ELSE IF sorted[1].pub_date <= e.pub_date
         THEN <<sorted[1]>> \o DateInsert(e, Tail(sorted))
    ELSE <<e>> \o sorted

RECURSIVE DateSort(_)
\* self.entries.sort_by(|a, b| a.pub_date.cmp(&b.pub_date)): a stable sort
DateSort(entries) ==
    IF entries = <<>> THEN <<>>
    ELSE DateInsert(entries[Len(entries)], DateSort(SubSeq(entries, 1, Len(entries) - 1)))

\* first_and_last_dates that takes the dates of the entries as they stand
first_and_last_dates_NoSort(entries) ==
    IF entries = <<>> THEN [entries |-> entries, result |-> None]
    ELSE [entries |-> entries,
          result |-> Some(<<entries[1].pub_date, entries[Len(entries)].pub_date>>)]

\* Channel::first_and_last_dates(&mut self): the entries it leaves and the
\* value it returns
first_and_last_dates(entries) ==
    IF entries = <<>> THEN [entries |-> entries, result |-> None]
    ELSE LET sorted == DateSort(entries)
         IN  [entries |-> sorted,
              result |-> Some(<<sorted[1].pub_date, sorted[Len(sorted)].pub_date>>)]

\* a page calls first_and_last_dates on a channel it holds
FirstAndLastDates ==
    /\ NoListCall
    /\ \E entries \in DateChannels :
       \E r \in {first_and_last_dates(entries)} :
         lres' = [op |-> "first_and_last_dates", input |-> entries,
                  entries |-> r.entries, result |-> r.result]
    /\ UNCHANGED <<identityVars, ingestVars, chdir, channel_cache, rx1, rx2, sent, stage_b>>

NextDates == FirstAndLastDates \/ ReturnListing

SpecDates == InitListing /\ [][NextDates]_vars

\* how often the entry e stands in the sequence q
Occurs(q, e) == Cardinality({k \in 1..Len(q) : q[k] = e})

\* C26: first_and_last_dates returns None for a channel without entries and
\* else the least and the greatest pub_date of its entries, in whatever
\* order they stood, and leaves the same entries in ascending pub_date order.
C26_FirstAndLastDates ==
    lres.op = "first_and_last_dates" =>
        /\ lres.input = <<>> => lres.result = None /\ lres.entries = <<>>
        /\ lres.input # <<>> =>
             /\ lres.result # None
             /\ \E k \in 1..Len(lres.input) : lres.input[k].pub_date = Get(lres.result)[1]
             /\ \E k \in 1..Len(lres.input) : lres.input[k].pub_date = Get(lres.result)[2]
             /\ \A k \in 1..Len(lres.input) :
                   /\ Get(lres.result)[1] <= lres.input[k].pub_date
                   /\ lres.input[k].pub_date <= Get(lres.result)[2]
        /\ Len(lres.entries) = Len(lres.input)
        /\ \A e \in DateEntries : Occurs(lres.entries, e) = Occurs(lres.input, e)
        /\ \A k \in 1..(Len(lres.entries) - 1) :
              lres.entries[k].pub_date <= lres.entries[k + 1].pub_date

\* the call was made on three entries that stood in no order: the greatest
\* date first, the least in the middle
C26_Witness ==
    /\ lres.op = "first_and_last_dates"
    /\ Len(lres.input) = 3
    /\ lres.input[1].pub_date = 3 /\ lres.input[2].pub_date = 1
    /\ lres.input[3].pub_date = 2
    /\ lres.result = Some(<<1, 3>>)

-----------------------------------------------------------------------------
(* Rotation of the signing key *)

\* the current key of the SigningKeys s
CurKey(s) == Get(s.cur_key)

\* C27: the SigningKeys object changes only by a rotation, which happens
\* only when there is no current key or the current key is expired, and
\* which mints a key that is new to the table, inserts it and makes it the
\* current key; a call that issues a URL rotates exactly in that case and
\* signs with the current key, which is not expired at that time; the
\* current key is always in the table under its own key id.
C27_LazyRotation ==
    /\ [][sk' # sk =>
            /\ NeedsNewKey(sk, now)
            /\ sk'.cur_key # None
            /\ CurKey(sk').key_id \notin DOMAIN sk.keys
            /\ sk'.keys = (CurKey(sk').key_id :> CurKey(sk')) @@ sk.keys
            /\ sk'.cur_key # sk.cur_key]_vars
    /\ [][issued' # issued =>
            /\ NeedsNewKey(sk, now) <=> sk' # sk
            /\ Get(issued').key_id = CurKey(sk').key_id
            /\ Get(issued').signature =
                 HmacSha256(CurKey(sk').secret,
                            string_to_sign(Get(issued').method, Get(issued').url.path,
                                           Get(issued').url.query))
            /\ ~is_expired(CurKey(sk'), now)]_vars
    /\ [](sk.cur_key # None =>
            /\ CurKey(sk).key_id \in DOMAIN sk.keys
            /\ sk.keys[CurKey(sk).key_id] = CurKey(sk))

\* the first key has expired and a URL was issued under a second key, minted
\* for it, while the first is still in the table
C27_Witness ==
    /\ issued # None /\ TheIssued.key_id = "K2"
    /\ DOMAIN sk.keys = {"K1", "K2"}
    /\ is_expired(sk.keys["K1"], now)
    /\ CurKey(sk).key_id = "K2" /\ ~is_expired(CurKey(sk), now)

-----------------------------------------------------------------------------
(* Order of the query parameters in the signed string *)

\* the query q with the pairs at i and i + 1 exchanged
SwapAt(q, i) ==
    [j \in 1..Len(q) |-> IF j = i THEN q[i + 1] ELSE IF j = i + 1 THEN q[i] ELSE q[j]]

\* the same parameters as q, in another order
Reorderings(q) == {SwapAt(q, i) : i \in 1..(Len(q) - 1)}

\* C28: the string built for the issued URL does not depend on the order of
\* its query parameters: exchanging two of them gives the same string to sign
\* and the same outcome of verify_signed_url under the key that signed it.
C28_OrderIndependent ==
    issued # None =>
        \A q \in Reorderings(TheIssued.url.query) :
            /\ string_to_sign(TheIssued.method, TheIssued.url.path, q) =
                 string_to_sign(TheIssued.method, TheIssued.url.path,
                                TheIssued.url.query)
            /\ LET f == from_url(TheIssued.method, TheIssued.url)
                   g == from_url(TheIssued.method, [TheIssued.url EXCEPT !.query = q])
                   k == sk.keys[TheIssued.key_id]
               IN  f.ok /\ g.ok =>
                     verify_signed_url(k, g.resp, now) = verify_signed_url(k, f.resp, now)

-----------------------------------------------------------------------------
(* Concurrent calls of get_jwks on the shared KeySet cache *)

\* the tasks that call get_jwks
JwksCallers == {"r1", "r2"}

\* the position of one call: seen is the cache its read lock showed, at the
\* time of that read; fetched: a request was sent; jwks: the KeySet in hand
JwksCall(pc, ok, fetched, jwks, seen, at) ==
    [pc |-> pc, ok |-> ok, fetched |-> fetched, jwks |-> jwks, seen |-> seen, at |-> at]

JwksIdle == [pc |-> "idle"]

InitJwks ==
    /\ now = 0
    /\ sk = SigningKeysNew(LongWindow, LongWindow)
    /\ minted = {}
    /\ issued = None
    /\ res = NoRes
    /\ jwks_cache = None
    /\ vt = [c \in JwksCallers |-> JwksIdle]
    /\ tokens = <<>> /\ passwd = <<>> /\ ares = NoCall
    /\ InitStoreIdle

\* time passes
TickCallers ==
    /\ now + JwksStep <= JwksMaxTime
    /\ now' = now + JwksStep
    /\ UNCHANGED <<signVars, tokVars, authVars, storeVars>>

\* the block under the read lock: return the cached KeySet or go on to fetch
JwksCheck(c) ==
    /\ vt[c].pc = "idle"
    /\ vt' = [vt EXCEPT ![c] =
                IF jwks_fresh(jwks_cache, now)
                THEN JwksCall("done", TRUE, FALSE, Get(jwks_cache).jwks, jwks_cache, now)
                ELSE JwksCall("fetching", FALSE, TRUE, <<>>, jwks_cache, now)]
    /\ UNCHANGED <<now, jwks_cache, signVars, authVars, storeVars>>

\* the request to the certs endpoint and the parse of its body: an error
\* returns at once, with the cache untouched
JwksFetch(c) ==
    /\ vt[c].pc = "fetching"
    /\ \E response \in JwksResponses :
         vt' = [vt EXCEPT ![c] =
                  IF response = None
                  THEN [@ EXCEPT !.pc = "done"]
                  ELSE [@ EXCEPT !.pc = "write", !.jwks = Get(response)]]
    /\ UNCHANGED <<now, jwks_cache, signVars, authVars, storeVars>>

\* the assignment under the write lock, and the return of the fetched KeySet
JwksWrite(c) ==
    /\ vt[c].pc = "write"
    /\ jwks_cache' = Some([jwks |-> vt[c].jwks, fetched_at |-> now])
    /\ vt' = [vt EXCEPT ![c] = [@ EXCEPT !.pc = "done", !.ok = TRUE]]
    /\ UNCHANGED <<now, signVars, authVars, storeVars>>

\* the caller takes the result
JwksReturn(c) ==
    /\ vt[c].pc = "done"
    /\ vt' = [vt EXCEPT ![c] = JwksIdle]
    /\ UNCHANGED <<now, jwks_cache, signVars, authVars, storeVars>>

NextJwks ==
    \/ TickCallers
    \/ \E c \in JwksCallers : JwksCheck(c)
    \/ \E c \in JwksCallers : JwksFetch(c)
    \/ \E c \in JwksCallers : JwksWrite(c)
    \/ \E c \in JwksCallers : JwksReturn(c)

SpecJwks == InitJwks /\ [][NextJwks]_vars

\* the call of c has passed its cache check
JwksChecked(c) == vt[c].pc \in {"fetching", "write", "done"}

\* C29: a call sends no request and returns the cached KeySet exactly when
\* the cache it read held a KeySet fetched less than 14400 s before; a call
\* that fetched and failed returns an error and changes nothing; the cache
\* changes only by the single assignment of a fetched KeySet together with
\* its fetch time; and the cached and the returned KeySets are always
\* KeySets the endpoint published whole.
C29_KeySetCache ==
    /\ [](\A c \in JwksCallers : JwksChecked(c) =>
            /\ ~vt[c].fetched <=>
                 (vt[c].seen # None /\ vt[c].at - Get(vt[c].seen).fetched_at < 14400)
            /\ ~vt[c].fetched =>
                 vt[c].pc = "done" /\ vt[c].ok /\ vt[c].jwks = Get(vt[c].seen).jwks
            /\ (vt[c].pc = "done" /\ vt[c].ok) => vt[c].jwks \in KeySets)
    /\ [](jwks_cache # None => Get(jwks_cache).jwks \in KeySets)
    /\ [][\A c \in JwksCallers :
            (vt[c].pc = "fetching" /\ vt'[c].pc = "done") =>
                ~vt'[c].ok /\ jwks_cache' = jwks_cache]_vars
    /\ [][jwks_cache' # jwks_cache =>
            \E c \in JwksCallers :
                /\ vt[c].pc = "write" /\ vt'[c].pc = "done" /\ vt'[c].ok
                /\ jwks_cache' = Some([jwks |-> vt'[c].jwks, fetched_at |-> now])]_vars
    /\ [][\A c \in JwksCallers :
            (vt[c].pc = "write" /\ vt'[c].pc = "done") =>
                jwks_cache' = Some([jwks |-> vt[c].jwks, fetched_at |-> now])]_vars

\* a call is answered from the cache that another fetch filled after the
\* first KeySet had aged out, while an older call holds a failed fetch
C29_Witness ==
    \E c, d \in JwksCallers :
        /\ vt[c].pc = "done" /\ ~vt[c].fetched
        /\ Get(vt[c].seen).fetched_at >= 14400
        /\ vt[d].pc = "done" /\ vt[d].fetched /\ ~vt[d].ok
        /\ vt[d].seen # None

-----------------------------------------------------------------------------
(* Order of the documents of one tick *)

\* the place of the file name f in the ascending order of the names
NamePos(f) == CHOOSE i \in 1..Len(NameOrder) : NameOrder[i] = f

\* the records read_file_descriptor extracts from f, none if it fails
RecordsOf(f) ==
    IF read_file_descriptor(f).kind = "Ok" THEN read_file_descriptor(f).records ELSE <<>>

\* the ids the document f defines
IdsOf(f) == {RecordsOf(f)[k].id : k \in 1..Len(RecordsOf(f))}

\* the record of f that table.insert leaves under id: the last one of f
LastRecord(f, id) ==
    RecordsOf(f)[CHOOSE k \in 1..Len(RecordsOf(f)) :
                    /\ RecordsOf(f)[k].id = id
                    /\ \A m \in (k + 1)..Len(RecordsOf(f)) : RecordsOf(f)[m].id # id]

\* a tick has run to its end and scan_and_store returned Ok
TickDone == scan.pc = "idle" /\ scan.last = "Ok"

\* C30: the new files of a tick are taken in ascending order of their
\* names, and after a tick that ran to its end, an id that documents of the
\* tick define is stored with the record of the greatest of their names.
C30_SortedLastWriteWins ==
    /\ scan.pc \in {"files", "txn"} =>
         \A i, j \in 1..Len(scan.new_files) :
             i < j => NamePos(scan.new_files[i]) < NamePos(scan.new_files[j])
    /\ TickDone =>
         \A f \in scan.parsed, g \in scan.parsed :
             NamePos(f) < NamePos(g) =>
                 \A id \in IdsOf(f) \cap IdsOf(g) :
                     (\A h \in scan.parsed : NamePos(g) < NamePos(h) => id \notin IdsOf(h))
                         => filedesc[id] = LastRecord(g, id)

\* a tick took a.docx and b.docx, which both define zsv250101-02, and the
\* record of b.docx is the one in the table
C30_Witness ==
    /\ TickDone
    /\ {"a.docx", "b.docx"} \subseteq scan.parsed
    /\ "zsv250101-02" \in IdsOf("a.docx") \cap IdsOf("b.docx")
    /\ LastRecord("a.docx", "zsv250101-02") # LastRecord("b.docx", "zsv250101-02")
    /\ filedesc["zsv250101-02"] = LastRecord("b.docx", "zsv250101-02")

-----------------------------------------------------------------------------
(* A tick that is cut short and run again *)

\* the loop of scan_and_store over the documents files, on the table t: the
\* records of every document that can be read are inserted, in order
RECURSIVE InsertDocs(_, _)
InsertDocs(t, files) ==
    IF files = <<>> THEN t
    ELSE InsertDocs(IF DescriptorOf[files[1]].kind = "Ok"
                    THEN ApplyBatch(t, DescriptorOf[files[1]].records)
                    ELSE t,
                    Tail(files))

\* the two tables after a whole tick of scan_and_store over the matching
\* files current_files, begun with the tables seen and table
TickOutcome(current_files, seen, table) ==
    LET nf == new_files(current_files, seen)
        sc == [current_files |-> current_files,
               failed |-> {f \in current_files :
                             \E k \in 1..Len(nf) :
                                nf[k] = f /\ DescriptorOf[f].kind = "Err"}]
    IN  [filedesc |-> InsertDocs(table, nf),
         filenames |-> seen \cup files_to_mark(sc)]

\* the two tables at the end of the running tick if nothing stops it
Uninterrupted ==
    LET rest == IF scan.pc = "txn"
                THEN SubSeq(scan.new_files, scan.i + 1, Len(scan.new_files))
                ELSE SubSeq(scan.new_files, scan.i, Len(scan.new_files))
        t == IF scan.pc = "txn" THEN ApplyBatch(filedesc, scan.batch) ELSE filedesc
    IN  [filedesc |-> InsertDocs(t, rest),
         filenames |-> filenames \cup files_to_mark(scan)]

\* no document of the running tick makes read_file_descriptor panic
TickCanEnd ==
    /\ scan.pc \in {"files", "txn"}
    /\ \A k \in 1..Len(scan.new_files) :
          read_file_descriptor(scan.new_files[k]).kind # "Panic"

\* the process stops in this step
Crashes == scan.pc # "idle" /\ scan'.pc = "idle" /\ scan'.last = "Crash"

\* C31: when the process stops inside a tick, a whole tick run afterwards
\* over the same files, on the tables the stop left, ends with the tables
\* the stopped tick would have ended with.
C31_CrashRecovery ==
    [][(Crashes /\ TickCanEnd) =>
          TickOutcome(scan.current_files, filenames', filedesc') = Uninterrupted]_vars

\* the process has stopped between the batch of a.docx and the batch of
\* b.docx: the records of a.docx are in the table, no file is marked seen
C31_Witness ==
    /\ scan.pc = "idle" /\ scan.last = "Crash"
    /\ {"a.docx", "b.docx"} \subseteq dir
    /\ filenames = {}
    /\ "zsv250101-02" \in DOMAIN filedesc
    /\ filedesc["zsv250101-02"] = LastRecord("a.docx", "zsv250101-02")

-----------------------------------------------------------------------------
(* One tick of Stage A over the configured channels *)

\* rss_channels: the configured channels, in the order of the list
RssChannels ==
    << [name |-> "c1", copy_lang |-> "zh", entries |-> <<>>],
       [name |-> "c2", copy_lang |-> "zh", entries |-> <<>>] >>

RssIds == {cache_id(RssChannels[k]) : k \in 1..Len(RssChannels)}

\* a channel's directory: whether fs::read_dir can open it, and its files
ChannelDir(readable, files) == [readable |-> readable, files |-> files]

\* no tick of Stage A is running
NoStageATick == lres = [op |-> "none"]

\* the position of a running tick: i is the channel the loop is at,
\* forwarded the channel ids sent so far, scanned those whose directory was read
StageATick(pc, i, forwarded, scanned, result) ==
    [op |-> "fill_and_queue_channels", pc |-> pc, i |-> i,
     forwarded |-> forwarded, scanned |-> scanned, result |-> result]

InitStageA ==
    /\ now = 0
    /\ sk = SigningKeysNew(LongWindow, LongWindow)
    /\ minted = {} /\ issued = None /\ res = NoRes
    /\ jwks_cache = None /\ vt = NoCall
    /\ tokens = <<>> /\ passwd = <<>> /\ ares = NoCall
    /\ dir = {} /\ filenames = {} /\ filedesc = <<>>
    /\ scan = Idle("none", NoTick) /\ mutex = "free"
    /\ chdir = [id \in RssIds |-> ChannelDir(TRUE, {})] /\ channel_cache = <<>>
    /\ rx1 = <<>> /\ rx2 = <<>> /\ sent = <<>> /\ stage_b = NoStageB
    /\ lres = [op |-> "none"]

\* between two ticks a media file appears in or disappears from a channel's
\* directory, or the directory becomes unreadable or readable again
ChannelDirChange ==
    /\ NoStageATick
    /\ \E id \in RssIds :
         \/ \E f \in MediaFiles :
              chdir' = [chdir EXCEPT ![id].files = IF f \in @ THEN @ \ {f} ELSE @ \cup {f}]
         \/ chdir' = [chdir EXCEPT ![id].readable = ~@]
    /\ UNCHANGED <<identityVars, ingestVars, channel_cache, rx1, rx2, sent, stage_b, lres>>

\* interval.tick() of the Stage A task: fill_and_queue_channels is called
StageATickStart ==
    /\ NoStageATick
    /\ lres' = StageATick("loop", 1, <<>>, {}, "none")
    /\ UNCHANGED <<identityVars, ingestVars, chdir, channel_cache, rx1, rx2, sent, stage_b>>

\* one turn of the loop of fill_and_queue_channels: read_dir(&ch)? returns
\* the error of an unreadable directory to the caller, an empty directory
\* is passed over, else the raw channel is sent when the queue has room
StageAChannel ==
    /\ lres.op = "fill_and_queue_channels" /\ lres.pc = "loop"
    /\ lres.i <= Len(RssChannels)
    /\ LET ch == RssChannels[lres.i]
           id == cache_id(ch)
       IN  IF ~chdir[id].readable
           THEN /\ lres' = [lres EXCEPT !.pc = "done", !.result = "Err"]
                /\ UNCHANGED rx1
           ELSE IF chdir[id].files = {}
           THEN /\ lres' = [lres EXCEPT !.i = @ + 1, !.scanned = @ \cup {id}]
                /\ UNCHANGED rx1
           ELSE /\ Len(rx1) < QueueCap
                /\ \E q \in read_dir(chdir[id].files) :
                     rx1' = Append(rx1, [cache_id |-> id,
                                         ch |-> set_entries(ch, ReadEntries(q))])
                /\ lres' = [lres EXCEPT !.i = @ + 1, !.scanned = @ \cup {id},
                                        !.forwarded = Append(@, id)]
    /\ UNCHANGED <<identityVars, ingestVars, chdir, channel_cache, rx2, sent, stage_b>>

\* the loop has passed the last channel: Ok(())
StageATickEnd ==
    /\ lres.op = "fill_and_queue_channels" /\ lres.pc = "loop"
    /\ lres.i > Len(RssChannels)
    /\ lres' = [lres EXCEPT !.pc = "done", !.result = "Ok"]
    /\ UNCHANGED <<identityVars, ingestVars, chdir, channel_cache, rx1, rx2, sent, stage_b>>

\* the Stage A task logs an error, if any, and waits for the next tick
StageATickReturn ==
    /\ lres.op = "fill_and_queue_channels" /\ lres.pc = "done"
    /\ lres' = [op |-> "none"]
    /\ UNCHANGED <<identityVars, ingestVars, chdir, channel_cache, rx1, rx2, sent, stage_b>>

\* rx.recv() of Stage B takes the pair at the head of the queue
StageBTakes ==
    /\ rx1 # <<>>
    /\ rx1' = Tail(rx1)
    /\ UNCHANGED <<identityVars, ingestVars, chdir, channel_cache, rx2, sent, stage_b, lres>>

NextStageA ==
    \/ ChannelDirChange \/ StageATickStart \/ StageAChannel \/ StageATickEnd
    \/ StageATickReturn \/ StageBTakes

SpecStageA == InitStageA /\ [][NextStageA]_vars

\* a tick of Stage A is over
StageATickOver == lres.op = "fill_and_queue_channels" /\ lres.pc = "done"

\* C32: when a tick of fill_and_queue_channels is over, the directory of
\* every configured channel has been scanned and exactly one pair has been
\* forwarded for each configured channel.
C32_EveryChannelEveryTick ==
    StageATickOver =>
        /\ lres.scanned = RssIds
        /\ \A id \in RssIds :
             Cardinality({k \in 1..Len(lres.forwarded) : lres.forwarded[k] = id}) = 1

-----------------------------------------------------------------------------
(* Changes of a listing on their way to the sink *)

\* a media file appears in a channel's directory
DirGrows ==
    /\ NoListCall
    /\ \E id \in CacheIds : \E f \in MediaFiles \ chdir[id] :
         chdir' = [chdir EXCEPT ![id] = @ \cup {f}]
    /\ UNCHANGED <<identityVars, ingestVars, channel_cache, rx1, rx2, sent, stage_b, lres>>

NextSink ==
    \/ DirGrows \/ StageA \/ StageBRecv
    \/ StageBSend \/ StageC \/ ListFiles \/ ReturnListing

\* Stage A is a task on a 5 second interval and Stages B and C loop on
\* their queues: each takes its step again and again when it can.  Files
\* are only added, so that the listings come to rest.
SpecSink ==
    /\ InitListing /\ [][NextSink]_vars
    /\ SF_vars(StageA) /\ SF_vars(StageBRecv) /\ SF_vars(StageBSend)
    /\ SF_vars(StageC) /\ WF_vars(ReturnListing)

\* the merged listing of the channel as a pass over its directory would
\* compute it now
MergedNow(ch) ==
    LET q == CHOOSE o \in read_dir(chdir[cache_id(ch)]) : TRUE
    IN  fill_descriptions(set_entries(ch, ReadEntries(q)),
                          cache_get(channel_cache, cache_id(ch)), filedesc)

\* the channel has media files and its merged listing is not the snapshot
\* forwarded last to Stage C
StaleSink(ch) ==
    /\ chdir[cache_id(ch)] # {}
    /\ \/ cache_id(ch) \notin DOMAIN sent
       \/ \E m \in {MergedNow(ch)} : Info(m) # Info(sent[cache_id(ch)])

\* a pass of Stage B has met a storage error
StageBFails ==
    lres.op = "channel_descriptions" /\ lres.by = "stage_b" /\ ~lres.ok

\* C33: unless the store fails Stage B again and again, the snapshot
\* forwarded last to Stage C comes to equal, and then stays equal to, the
\* merged listing of every channel that has media files, whatever the
\* request handlers do in between.
C33_NoChangeLost ==
    \A ch \in Channels : <>[](~StaleSink(ch)) \/ []<>StageBFails

-----------------------------------------------------------------------------
(* The validity window of an issued URL *)

\* C34: the key that signed the issued URL does not expire before the URL
\* does, and SigningKeys::verify_signed_url accepts the issued URL,
\* presented as it was issued, at every instant up to its expires value.
C34_UsableWholeWindow ==
    /\ issued # None =>
         sk.keys[TheIssued.key_id].expires_at >= TheIssued.expires_at
    /\ (/\ issued # None /\ Verified /\ res.op = "keys"
        /\ res.url = TheIssued.url
        /\ now <= TheIssued.expires_at)
         => res.result = "Ok"

-----------------------------------------------------------------------------
(* The sign-URL endpoint *)

\* with_auth(state, headers, method, uri, f): bearer is the token of the
\* authorization header of the headers it is given (None: no such header),
\* uri the URL it is given (None: none), s is state.signing_keys.  call_f
\* tells that f is called, identity with what
with_auth(bearer, method, uri, s, c, t, response1, response2) ==
    IF bearer # None
    THEN LET v == verify_token(c, Get(bearer), t, response1, response2)
         IN  IF v.result \in {"Err401", "Err500"}
             THEN [call_f |-> FALSE, status |-> 500, msg |-> "token verification failed",
                   cache |-> v.cache]
             ELSE IF v.result = "false"
             THEN [call_f |-> FALSE, status |-> 401, msg |-> "token inactive",
                   cache |-> v.cache]
             ELSE IF ~decode_jwt_payload_ok(Get(bearer))
             THEN [call_f |-> FALSE, status |-> 500, msg |-> "failed to decode claims",
                   cache |-> v.cache]
             ELSE [call_f |-> TRUE, identity |-> "Claims", cache |-> v.cache]
    ELSE IF uri # None
    THEN LET f == from_url(to_uppercase(method), Get(uri))
         IN  IF ~f.ok
             THEN [call_f |-> FALSE, status |-> 401, msg |-> f.err, cache |-> c]
             ELSE IF keys_verify_signed_url(s, f.resp, t) # "Ok"
             THEN [call_f |-> FALSE, status |-> 401,
                   msg |-> keys_verify_signed_url(s, f.resp, t), cache |-> c]
             ELSE [call_f |-> TRUE, identity |-> "FileSysID", cache |-> c]
    ELSE [call_f |-> FALSE, status |-> 401, msg |-> "no token", cache |-> c]

\* the closure of signurl_handler: state.signing_keys signs the request
sign_with_state_keys(sign_req, s, t) ==
    LET n == Cardinality(DOMAIN s.keys)
        s1 == current(s, "K" \o ToString(n + 1), n + 1, t)
        r == generate_signed_url(Get(s1.cur_key), sign_req, t, "n1")
    IN  IF r.ok
        THEN [ok |-> TRUE, status |-> 200, msg |-> NoStr, resp |-> Some(r.resp), sk |-> s1]
        ELSE [ok |-> FALSE, status |-> 500, msg |-> r.err, resp |-> None, sk |-> s1]

\* a signurl_handler that hands the headers of its request to with_auth
signurl_handler_WithHeaders(sign_req, bearer, s, c, t, response1, response2) ==
    LET a == with_auth(bearer, "POST", None, s, c, t, response1, response2)
    IN  IF a.call_f
        THEN sign_with_state_keys(sign_req, s, t) @@ [cache |-> a.cache]
        ELSE [ok |-> FALSE, status |-> a.status, msg |-> a.msg, resp |-> None,
              sk |-> s, cache |-> a.cache]

\* signurl_handler(State(state), Json(sign_req)) for a request whose
\* authorization header carries bearer: with_auth is given HeaderMap::new()
\* and no URL
signurl_handler(sign_req, bearer, s, c, t, response1, response2) ==
    LET a == with_auth(None, "POST", None, s, c, t, response1, response2)
    IN  IF a.call_f
        THEN sign_with_state_keys(sign_req, s, t) @@ [cache |-> a.cache]
        ELSE [ok |-> FALSE, status |-> a.status, msg |-> a.msg, resp |-> None,
              sk |-> s, cache |-> a.cache]

\* sk is state.signing_keys of main: SigningKeys::new(3600 * 24 * 30, 3600)
InitSignUrl ==
    /\ now = 0
    /\ sk = SigningKeysNew(GlobalKeyExpirySecs, GlobalSigExpirySecs)
    /\ minted = {}
    /\ issued = None
    /\ res = NoRes
    /\ jwks_cache = None /\ vt = NoCall
    /\ tokens = <<>> /\ passwd = <<>> /\ ares = NoCall
    /\ InitStoreIdle

\* POST /auth/v1/signurl; verifies is what verify_token answers for the
\* bearer token of the request at this moment
SignUrlHandler ==
    /\ ares = NoCall
    /\ \E sign_req \in AuthSignRequests,
          bearer \in {None} \cup {Some(x) : x \in AuthJwtTexts},
          response1 \in AuthJwksResponses, response2 \in AuthJwksResponses :
         \E r \in {signurl_handler(sign_req, bearer, sk, jwks_cache, now,
                                   response1, response2)},
            v \in {IF bearer = None THEN "none"
                   ELSE verify_token(jwks_cache, Get(bearer), now,
                                     response1, response2).result} :
           /\ ares' = [op |-> "signurl_handler", request |-> sign_req,
                       bearer |-> bearer, verifies |-> v = "true",
                       ok |-> r.ok, status |-> r.status, msg |-> r.msg,
                       resp |-> r.resp]
           /\ sk' = r.sk
           /\ jwks_cache' = r.cache
           /\ issued' = IF r.ok THEN r.resp ELSE issued
    /\ UNCHANGED <<now, minted, res, vt, tokens, passwd, storeVars>>

NextSignUrl ==
    \/ TickAuth \/ SignUrlHandler \/ Authenticate \/ RefreshToken
    \/ Evict \/ ReturnAuth

SpecSignUrl == InitSignUrl /\ [][NextSignUrl]_vars

SignUrlCalled == ares.op = "signurl_handler"

\* C36: a call of signurl_handler whose request carries a bearer token that
\* verifies returns a signed URL, and a call answered with 401 carried no
\* bearer token that verifies.
C36_ServesAuthenticated ==
    SignUrlCalled =>
        /\ ares.verifies => (ares.ok /\ ares.status = 200 /\ ares.resp # None)
        /\ ares.status = 401 => ~ares.verifies

-----------------------------------------------------------------------------
(* The key table of the signer and the key table of the resolver *)

\* the global SIGNING_KEYS of keycloak.rs, which check_auth reads: no code
\* calls generate_signed_url on it, so it stays as SigningKeys::new made it
SIGNING_KEYS == SigningKeysNew(GlobalKeyExpirySecs, GlobalSigExpirySecs)

\* POST /auth/v1/signurl by an authenticated caller: the closure of
\* signurl_handler signs with state.signing_keys
SignUrlAuthenticated ==
    /\ ares = NoCall
    /\ \E sign_req \in AuthSignRequests, bearer \in {Some(x) : x \in AuthJwtTexts},
          response1 \in AuthJwksResponses, response2 \in AuthJwksResponses :
         \E r \in {signurl_handler_WithHeaders(sign_req, bearer, sk, jwks_cache, now,
                                               response1, response2)} :
           /\ ares' = [op |-> "signurl_handler", request |-> sign_req,
                       bearer |-> bearer, ok |-> r.ok, status |-> r.status,
                       msg |-> r.msg, resp |-> r.resp]
           /\ sk' = r.sk
           /\ jwks_cache' = r.cache
           /\ issued' = IF r.ok THEN r.resp ELSE issued
    /\ UNCHANGED <<now, minted, res, vt, tokens, passwd, storeVars>>

\* one call of check_auth: its signed-URL branch reads SIGNING_KEYS
CheckAuthGlobal ==
    /\ ares = NoCall
    /\ \E request \in AuthRequests :
         \E idp \in IdpAnswers(request) :
            \E r \in {check_auth(request, SIGNING_KEYS, jwks_cache, passwd, tokens,
                                 now, idp)} :
                /\ ares' = [op |-> "check_auth", request |-> request, ok |-> r.ok,
                            status |-> r.status, info |-> r.info, msg |-> r.msg,
                            events |-> r.events]
                /\ jwks_cache' = r.cache
                /\ passwd' = r.passwd
                /\ tokens' = r.tokens
    /\ UNCHANGED <<now, signVars, vt, storeVars>>

NextKeyTables ==
    \/ TickAuth \/ SignUrlAuthenticated \/ CheckAuthGlobal \/ Evict \/ ReturnAuth

SpecKeyTables == InitSignUrl /\ [][NextKeyTables]_vars

-----------------------------------------------------------------------------
(* Bearer tokens and the clock *)

\* C37: no expired bearer token is accepted: whenever check_auth answers a
\* request that carries a bearer token with an authenticated result, the exp
\* claim of that token is later than the current time, whether the session
\* came from verify_token or from the token cache.
C37_NoExpiredBearer ==
    (AuthCalled /\ ares.request.jwt_token # None /\ ares.ok)
        => JwtOf(Get(ares.request.jwt_token)).exp > now

-----------------------------------------------------------------------------
(* Concurrent calls of verify_token on the shared KeySet cache *)

\* the tasks that call verify_token
VerifyCallers == {"v1", "v2"}

\* the KeySet the identity provider returns as its n-th answer: the answers
\* are told apart, and ordered, by the key they carry
KeySetNo(n) == << Jwk("k1", n) >>

\* the place of a KeySet in the order of the identity provider's answers
AnswerNo(jwks) == jwks[1].n

\* the identity provider has returned served KeySets; newest is the greatest
\* answer a call has put in the cache so far, 0 when none has been
Idp(served, newest) == [op |-> "idp", served |-> served, newest |-> newest]

\* the position of one call: sig is the key that signed its token, attempt
\* counts its calls of get_jwks, jwks is the KeySet in hand, before_clear
\* tells that another call cleared the cache since this call's fetch began
VerifyCall(pc, sig, attempt, jwks, before_clear, result) ==
    [pc |-> pc, sig |-> sig, attempt |-> attempt, jwks |-> jwks,
     before_clear |-> before_clear, result |-> result]

VerifyIdle == [pc |-> "idle"]

InitRace ==
    /\ now = 0
    /\ sk = SigningKeysNew(LongWindow, LongWindow)
    /\ minted = {}
    /\ issued = None
    /\ res = Idp(0, 0)
    /\ jwks_cache = None
    /\ vt = [c \in VerifyCallers |-> VerifyIdle]
    /\ tokens = <<>> /\ passwd = <<>> /\ ares = NoCall
    /\ InitStoreIdle

\* verify_token is called with a token signed by one of the provider's keys
VerifyStart(c) ==
    /\ vt[c].pc = "idle"
    /\ \E sig \in 1..MaxAnswers :
         vt' = [vt EXCEPT ![c] = VerifyCall("check", sig, 1, <<>>, FALSE, NoStr)]
    /\ UNCHANGED <<now, jwks_cache, signVars, authVars, storeVars>>

\* get_jwks, the block under the read lock
VerifyCheck(c) ==
    /\ vt[c].pc = "check"
    /\ vt' = [vt EXCEPT ![c] =
                IF jwks_fresh(jwks_cache, now)
                THEN [@ EXCEPT !.pc = "decode", !.jwks = Get(jwks_cache).jwks]
                ELSE [@ EXCEPT !.pc = "fetching", !.before_clear = FALSE]]
    /\ UNCHANGED <<now, jwks_cache, signVars, authVars, storeVars>>

\* get_jwks, the request to the certs endpoint: it fails, or the provider
\* returns its next KeySet
VerifyFetch(c) ==
    /\ vt[c].pc = "fetching"
    /\ \/ /\ vt' = [vt EXCEPT ![c] = [@ EXCEPT !.pc = "done", !.result = "Err500"]]
          /\ UNCHANGED res
       \/ /\ res.served < MaxAnswers
          /\ res' = [res EXCEPT !.served = @ + 1]
          /\ vt' = [vt EXCEPT ![c] =
                      [@ EXCEPT !.pc = "write", !.jwks = KeySetNo(res.served + 1)]]
    /\ UNCHANGED <<now, jwks_cache, sk, minted, issued, authVars, storeVars>>

\* get_jwks, the assignment under the write lock
VerifyWrite(c) ==
    /\ vt[c].pc = "write"
    /\ jwks_cache' = Some([jwks |-> vt[c].jwks, fetched_at |-> now])
    /\ res' = [res EXCEPT !.newest = IF AnswerNo(vt[c].jwks) > @
                                     THEN AnswerNo(vt[c].jwks) ELSE @]
    /\ vt' = [vt EXCEPT ![c] = [@ EXCEPT !.pc = "decode"]]
    /\ UNCHANGED <<now, sk, minted, issued, authVars, storeVars>>

\* decode with the key in hand: a signature mismatch of the first attempt
\* leads to the clearing of the cache, one of the second to Ok(false)
VerifyDecode(c) ==
    /\ vt[c].pc = "decode"
    /\ vt' = [vt EXCEPT ![c] =
                IF AnswerNo(vt[c].jwks) = vt[c].sig
                THEN [@ EXCEPT !.pc = "done", !.result = "true"]
                ELSE IF vt[c].attempt = 1
                THEN [@ EXCEPT !.pc = "clear"]
                ELSE [@ EXCEPT !.pc = "done", !.result = "false"]]
    /\ UNCHANGED <<now, jwks_cache, signVars, authVars, storeVars>>

\* *cache = None under the write lock, then get_jwks again; the fetches of
\* the other calls that are under way began before this clear
VerifyClear(c) ==
    /\ vt[c].pc = "clear"
    /\ jwks_cache' = None
    /\ vt' = [d \in VerifyCallers |->
                IF d = c THEN [vt[c] EXCEPT !.pc = "check", !.attempt = 2]
                ELSE IF vt[d].pc \in {"fetching", "write"}
                THEN [vt[d] EXCEPT !.before_clear = TRUE]
                ELSE vt[d]]
    /\ UNCHANGED <<now, signVars, authVars, storeVars>>

\* the caller takes the result
VerifyReturn(c) ==
    /\ vt[c].pc = "done"
    /\ vt' = [vt EXCEPT ![c] = VerifyIdle]
    /\ UNCHANGED <<now, jwks_cache, signVars, authVars, storeVars>>

NextRace ==
    \/ TickCallers
    \/ \E c \in VerifyCallers : VerifyStart(c)
    \/ \E c \in VerifyCallers : VerifyCheck(c)
    \/ \E c \in VerifyCallers : VerifyFetch(c)
    \/ \E c \in VerifyCallers : VerifyWrite(c)
    \/ \E c \in VerifyCallers : VerifyDecode(c)
    \/ \E c \in VerifyCallers : VerifyClear(c)
    \/ \E c \in VerifyCallers : VerifyReturn(c)

SpecRace == InitRace /\ [][NextRace]_vars

\* C38: the freshest KeySet wins: the cached KeySet is never one the
\* identity provider returned earlier than a KeySet that had been cached
\* before, and no call whose fetch began before another call cleared the
\* cache writes its KeySet after that clear.
C38_FreshestWins ==
    /\ [](jwks_cache # None => AnswerNo(Get(jwks_cache).jwks) >= res.newest)
    /\ [][\A c \in VerifyCallers :
            (vt[c].pc = "write" /\ vt'[c].pc = "decode") => ~vt[c].before_clear]_vars

-----------------------------------------------------------------------------
(* The two mutexes: Metadata Store and Channel Cache *)

\* the tasks that call channel_descriptions: Stage B and two request handlers
LockTasks == {"stage_b", "h1", "h2"}

\* the documents that appear in the watch directory in these runs
LockFiles == {"a.docx", "norows.docx"}

\* the position of a task: pc; phase is 0 in the handler's own look at the
\* cache, 1 in the lookup of channel_descriptions and 2 in its insert; cache
\* tells that the task holds the guard of the Channel Cache mutex
LockTask(pc, phase, cache) == [pc |-> pc, phase |-> phase, cache |-> cache]

LockIdle == LockTask("idle", 0, FALSE)

\* the holder of the Channel Cache mutex
CacheMutex ==
    IF \E t \in LockTasks : lres[t].cache
    THEN CHOOSE t \in LockTasks : lres[t].cache
    ELSE "free"

InitLocks ==
    /\ now = 0
    /\ sk = SigningKeysNew(LongWindow, LongWindow)
    /\ minted = {} /\ issued = None /\ res = NoRes
    /\ jwks_cache = None /\ vt = NoCall
    /\ tokens = <<>> /\ passwd = <<>> /\ ares = NoCall
    /\ dir = {} /\ filenames = {} /\ filedesc = <<>>
    /\ scan = [pc |-> "idle"] /\ mutex = "free"
    /\ chdir = <<>> /\ channel_cache = <<>>
    /\ rx1 = <<>> /\ rx2 = <<>> /\ sent = <<>> /\ stage_b = [pc |-> "recv"]
    /\ lres = [t \in LockTasks |-> LockIdle]

lockRest == <<identityVars, chdir, channel_cache, rx1, rx2, sent, stage_b>>

\* a document appears in the watch directory
LockAddFile ==
    /\ \E f \in LockFiles \ dir : dir' = dir \cup {f}
    /\ UNCHANGED <<lockRest, filenames, filedesc, scan, mutex, lres>>

\* interval.tick() of the extraction loop: scan_and_store is called and
\* reaches storage.lock()
LoopRequests ==
    /\ scan.pc = "idle"
    /\ scan' = [pc |-> "want_store"]
    /\ UNCHANGED <<lockRest, dir, filenames, filedesc, mutex, lres>>

\* storage.lock().unwrap() of scan_and_store
LoopLocks ==
    /\ scan.pc = "want_store" /\ mutex = "free"
    /\ scan' = [pc |-> "tick"] /\ mutex' = "scan"
    /\ UNCHANGED <<lockRest, dir, filenames, filedesc, lres>>

\* the new files of the tick up to the first one that makes
\* read_file_descriptor panic
RECURSIVE BeforePanic(_)
BeforePanic(files) ==
    IF files = <<>> \/ DescriptorOf[files[1]].kind = "Panic" THEN <<>>
    ELSE <<files[1]>> \o BeforePanic(Tail(files))

\* the rest of scan_and_store, under the guard: it returns and drops the
\* guard, or a document panics and the guard is dropped in the unwinding
LoopTick ==
    /\ scan.pc = "tick"
    /\ LET current_files == {f \in dir : is_match(f)}
           nf == new_files(current_files, filenames)
       IN  IF \E k \in 1..Len(nf) : DescriptorOf[nf[k]].kind = "Panic"
           THEN /\ filedesc' = InsertDocs(filedesc, BeforePanic(nf))
                /\ scan' = [pc |-> "dead"] /\ mutex' = "poisoned"
                /\ UNCHANGED filenames
           ELSE \E r \in {TickOutcome(current_files, filenames, filedesc)} :
                  /\ filedesc' = r.filedesc /\ filenames' = r.filenames
                  /\ scan' = [pc |-> "idle"] /\ mutex' = "free"
    /\ UNCHANGED <<lockRest, dir, lres>>

\* Stage B receives a channel and reaches storage.lock(); a handler starts
\* list_files and reaches channel_cache.lock()
TaskStarts(t) ==
    /\ lres[t].pc = "idle"
    /\ lres' = [lres EXCEPT ![t] = IF t = "stage_b"
                                   THEN LockTask("want_store", 1, FALSE)
                                   ELSE LockTask("want_cache", 0, FALSE)]
    /\ UNCHANGED <<lockRest, ingestVars>>

\* storage.lock().unwrap(): the guard, or a panic that ends the task when
\* the mutex is poisoned
LockStore(t) ==
    /\ lres[t].pc = "want_store"
    /\ \/ /\ mutex = "free"
          /\ mutex' = t
          /\ lres' = [lres EXCEPT ![t] = LockTask("want_cache", 1, @.cache)]
       \/ /\ mutex = "poisoned"
          /\ lres' = [lres EXCEPT ![t] = LockTask("dead", @.phase, @.cache)]
          /\ UNCHANGED mutex
    /\ UNCHANGED <<lockRest, dir, filenames, filedesc, scan>>

\* cache.lock().unwrap()
LockCache(t) ==
    /\ lres[t].pc = "want_cache" /\ CacheMutex = "free"
    /\ lres' = [lres EXCEPT ![t] = LockTask("in_cache", @.phase, TRUE)]
    /\ UNCHANGED <<lockRest, ingestVars>>

\* the end of the block that holds the guard of the cache: after the
\* handler's look a fresh slot is returned or the directory is read and
\* storage.lock() reached; after the lookup of channel_descriptions comes
\* fill_descriptions; after its insert it returns
UnlockCache(t) ==
    /\ lres[t].pc = "in_cache"
    /\ \E pc \in (CASE lres[t].phase = 0 -> {"idle", "want_store"}
                    [] lres[t].phase = 1 -> {"merge"}
                    [] lres[t].phase = 2 -> {"unlock_store"}) :
         lres' = [lres EXCEPT ![t] = LockTask(pc, @.phase, FALSE)]
    /\ UNCHANGED <<lockRest, ingestVars>>

\* fill_descriptions and the comparison with the cached snapshot: changed,
\* not changed, or an error of the store
Merge(t) ==
    /\ lres[t].pc = "merge"
    /\ \E changed \in BOOLEAN :
         lres' = [lres EXCEPT ![t] = IF changed
                                     THEN LockTask("want_cache", 2, @.cache)
                                     ELSE LockTask("unlock_store", @.phase, @.cache)]
    /\ UNCHANGED <<lockRest, ingestVars>>

\* channel_descriptions has returned: the guard of the store is dropped
UnlockStore(t) ==
    /\ lres[t].pc = "unlock_store"
    /\ mutex' = "free"
    /\ lres' = [lres EXCEPT ![t] = LockIdle]
    /\ UNCHANGED <<lockRest, dir, filenames, filedesc, scan>>

NextLocks ==
    \/ LockAddFile \/ LoopRequests \/ LoopLocks \/ LoopTick
    \/ \E t \in LockTasks : TaskStarts(t)
    \/ \E t \in LockTasks : LockStore(t)
    \/ \E t \in LockTasks : LockCache(t)
    \/ \E t \in LockTasks : UnlockCache(t)
    \/ \E t \in LockTasks : Merge(t)
    \/ \E t \in LockTasks : UnlockStore(t)

\* a task that waits for a mutex gets it when the mutex is free again and
\* again; a task that holds one goes on
SpecLocks ==
    /\ InitLocks /\ [][NextLocks]_vars
    /\ SF_vars(LoopLocks) /\ WF_vars(LoopTick)
    /\ \A t \in LockTasks :
         /\ SF_vars(LockStore(t)) /\ SF_vars(LockCache(t))
         /\ WF_vars(UnlockCache(t)) /\ WF_vars(Merge(t)) /\ WF_vars(UnlockStore(t))

\* C39: a task takes the mutex of the Metadata Store only while it does not
\* hold the mutex of the Channel Cache, so a task that holds both took the
\* store first; the cache mutex is not held while a task waits for the
\* store or merges descriptors; and every task that waits for either mutex
\* comes to hold it: its wait for the store ends only with the guard in its
\* hands, and every wait ends.
C39_LockOrder ==
    /\ [](\A t \in LockTasks :
            lres[t].pc \in {"want_store", "merge"} => ~lres[t].cache)
    /\ [][\A t \in LockTasks : (mutex # t /\ mutex' = t) => ~lres[t].cache]_vars
    /\ [][\A t \in LockTasks :
            (~lres[t].cache /\ lres'[t].cache /\ lres[t].phase > 0) => mutex = t]_vars
    /\ [][\A t \in LockTasks :
            (lres[t].pc = "want_store" /\ lres'[t].pc # "want_store") => mutex' = t]_vars
    /\ (scan.pc = "want_store") ~> (mutex = "scan")
    /\ \A t \in LockTasks :
         /\ (lres[t].pc = "want_store") ~> (mutex = t)
         /\ (lres[t].pc = "want_cache") ~> lres[t].cache

-----------------------------------------------------------------------------
(* The browser client: session, refresh timer and logout *)

\* the AuthResponse the login and refresh endpoints may return to the client
ClientAuthResponses ==
    { [jwt_token |-> "t_good", refresh_token |-> Some("rt")],
      [jwt_token |-> "t_rot", refresh_token |-> None] }

\* AppState: the auth signal and the handle of the last scheduled timer
AppState(auth, scheduled_refresh) ==
    [auth |-> auth, scheduled_refresh |-> scheduled_refresh]

\* local storage: the items "auth" and "jwt_token"
LocalStorage(auth, jwt_token) == [auth |-> auth, jwt_token |-> jwt_token]

\* the window: local storage, the jwt_token cookie, the timers set and not
\* yet fired, the refresh requests in flight, the handles given out, and
\* whether the user's last explicit action was a logout
Window(store, cookie, timers, requests, handles, logged_out) ==
    [store |-> store, cookie |-> cookie, timers |-> timers,
     requests |-> requests, handles |-> handles, logged_out |-> logged_out]

\* storage.set_item fails at no item, at "auth", or at "jwt_token"
StoreFailures == {"none", "auth", "jwt_token"}

\* store_auth(resp) on the storage st
store_auth(st, resp, fails) ==
    CASE fails = "auth" -> [ok |-> FALSE, store |-> st]
      [] fails = "jwt_token" ->
            [ok |-> FALSE, store |-> LocalStorage(Some(resp), st.jwt_token)]
      [] OTHER -> [ok |-> TRUE, store |-> LocalStorage(Some(resp), Some(resp.jwt_token))]

\* clear_tokens()
clear_tokens(st) == LocalStorage(None, None)

\* get_auth_from_store()
get_auth_from_store(st) == st.auth

\* schedule_refresh_token(state, refresh, expires_at): a new timer is
\* set and its handle stored in the state
schedule_refresh_token(a, w, refresh) ==
    LET handle == w.handles + 1
    IN  [state |-> AppState(a.auth, Some(handle)),
         window |-> [w EXCEPT !.timers = @ \cup {[handle |-> handle,
                                                  refresh_token |-> refresh]},
                              !.handles = handle]]

\* set_auth_response(state, Some(resp))
set_auth_response(a, w, resp, fails) ==
    LET a1 == AppState(Some(resp), a.scheduled_refresh)
        st == store_auth(w.store, resp, fails)
        w1 == [w EXCEPT !.store = st.store]
        w2 == [w1 EXCEPT !.cookie = Some(resp.jwt_token)]
    IN  IF ~st.ok THEN [ok |-> FALSE, state |-> a1, window |-> w1]
        ELSE IF resp.refresh_token # None
        THEN [ok |-> TRUE] @@ schedule_refresh_token(a1, w2, Get(resp.refresh_token))
        ELSE [ok |-> TRUE, state |-> a1, window |-> w2]

\* logout(state)
logout(a, w) ==
    [state |-> AppState(None, None),
     window |-> [w EXCEPT !.cookie = None, !.store = clear_tokens(w.store),
                          !.timers = {t \in @ : a.scheduled_refresh = None
                                                 \/ t.handle # Get(a.scheduled_refresh)}]]

clientRest == <<now, sk, minted, issued, tokVars, tokens, passwd, storeVars>>

InitClient ==
    /\ now = 0
    /\ sk = SigningKeysNew(LongWindow, LongWindow)
    /\ minted = {} /\ issued = None
    /\ res = Window(LocalStorage(None, None), None, {}, {}, 0, FALSE)
    /\ jwks_cache = None /\ vt = NoCall
    /\ tokens = <<>> /\ passwd = <<>>
    /\ ares = AppState(None, None)
    /\ InitStoreIdle

\* the login form gets its answer: the session is set and stored and the
\* refresh scheduled
ClientLogin ==
    /\ res.handles < MaxTimers
    /\ \E resp \in ClientAuthResponses, fails \in StoreFailures :
         LET a1 == AppState(Some(resp), ares.scheduled_refresh)
             w1 == [res EXCEPT !.store = store_auth(res.store, resp, fails).store,
                               !.logged_out = FALSE]
             r == IF resp.refresh_token # None
                  THEN schedule_refresh_token(a1, w1, Get(resp.refresh_token))
                  ELSE [state |-> a1, window |-> w1]
         IN  ares' = r.state /\ res' = r.window
    /\ UNCHANGED clientRest

\* the page is loaded anew: timers and requests of the old page are gone,
\* provide_app_state takes the session from the storage
PageLoad ==
    /\ res.handles < MaxTimers
    /\ LET a0 == AppState(None, None)
           w0 == [res EXCEPT !.timers = {}, !.requests = {}]
           auth == get_auth_from_store(res.store)
       IN  IF auth = None
           THEN ares' = a0 /\ res' = w0
           ELSE \E fails \in StoreFailures :
                  \E r \in {set_auth_response(a0, w0, Get(auth), fails)} :
                     ares' = r.state /\ res' = r.window
    /\ UNCHANGED clientRest

\* a timer fires: its closure sends the refresh request
TimerFires ==
    /\ \E t \in res.timers :
         res' = [res EXCEPT !.timers = @ \ {t},
                            !.requests = @ \cup {t.refresh_token}]
    /\ UNCHANGED <<ares, clientRest>>

\* the refresh request is answered: Ok(resp) goes to set_auth_response, an
\* error sends the browser to the login page
RefreshAnswered ==
    /\ res.handles < MaxTimers
    /\ \E q \in res.requests :
         LET w0 == [res EXCEPT !.requests = @ \ {q}]
         IN  \/ ares' = ares /\ res' = w0
             \/ \E resp \in ClientAuthResponses, fails \in StoreFailures :
                  \E r \in {set_auth_response(ares, w0, resp, fails)} :
                     ares' = r.state /\ res' = r.window
    /\ UNCHANGED clientRest

\* the user logs out
Logout ==
    /\ \E r \in {logout(ares, res)} :
         /\ ares' = r.state
         /\ res' = [r.window EXCEPT !.logged_out = TRUE]
    /\ UNCHANGED clientRest

NextClient == ClientLogin \/ PageLoad \/ TimerFires \/ RefreshAnswered \/ Logout

SpecClient == InitClient /\ [][NextClient]_vars

\* C40: logout is final: from a logout until the next login through the
\* form, state.auth is None and the items of the local storage stay
\* removed, whatever timers fire and whatever refresh requests are answered.
C40_LogoutFinal ==
    res.logged_out => ares.auth = None /\ res.store = LocalStorage(None, None)

====
